---- MODULE Spec2Model ----
(***************************************************************************)
(* The estimator lifecycle of aeon: aeon/base/_base.py (BaseEstimator),    *)
(* with DiscreteFourierApproximation (_dfa.py) as the concrete estimator   *)
(* class.  An estimator object is its class and its instance __dict__; the *)
(* operations of BaseEstimator are actions on a small heap of objects.     *)
(***************************************************************************)
EXTENDS Integers, Sequences, FiniteSets, TLC

\* Number of object slots of the heap (variables bound to estimator objects).
MaxObj == 2

\* Number of addresses of list objects.
MaxList == 3

Oids == 1..MaxObj

-----------------------------------------------------------------------------
(* Python values.  Every value carries its type, so isinstance is a test   *)
(* of the tag and two values of different types are simply unequal.        *)

PyNone == [t |-> "NoneType", v |-> 0]
PyBool(b) == [t |-> "bool", v |-> b]
PyInt(n) == [t |-> "int", v |-> n]
\* A float, held in tenths: PyFloat(5) is 0.5.
PyFloat(n) == [t |-> "float", v |-> n]
PyStr(s) == [t |-> "str", v |-> s]
PyDict(f) == [t |-> "dict", v |-> f]
\* A reference to the aeon estimator object in slot i of a heap.
PyEst(i) == [t |-> "BaseEstimator", v |-> i]
\* A reference to the list object at address a of the store of lists.
PyList(a) == [t |-> "list", v |-> a]

\* str.startswith, str.endswith and the substring test `p in s`.
StartsWith(s, p) == Len(s) >= Len(p) /\ SubSeq(s, 1, Len(p)) = p
EndsWith(s, p) == Len(s) >= Len(p) /\ SubSeq(s, Len(s) - Len(p) + 1, Len(s)) = p
Contains(s, p) == \E i \in 1..(Len(s) - Len(p) + 1) : SubSeq(s, i, i + Len(p) - 1) = p

\* dict(), dict.update, and the deletion of a set of keys.
EmptyDict == [k \in {} |-> PyNone]
DictUpdate(d, e) == [k \in (DOMAIN d) \cup (DOMAIN e) |-> IF k \in DOMAIN e THEN e[k] ELSE d[k]]
DictDel(d, S) == [k \in (DOMAIN d) \ S |-> d[k]]
Range(s) == {s[i] : i \in DOMAIN s}

-----------------------------------------------------------------------------
(* Classes.                                                                *)

DFA == "DiscreteFourierApproximation"
Enc == "EncoderRegressor"
Series == "BaseSeriesTransformer"
Base == "BaseEstimator"
\* A class that extends BaseEstimator and overrides _get_fitted_params.
Ovr == "OverridingEstimator"

\* inspect.getmro(cls)[:-2]: the class and its aeon ancestors, most specific
\* first, without sklearn's BaseEstimator and object.
Mro(cls) ==
    IF cls = DFA THEN <<DFA, Series, Base>>
    ELSE IF cls \in {Enc, Series, Ovr} THEN <<cls, Base>> ELSE <<Base>>

\* BaseEstimator._tags.
BaseTags ==
    [k \in {"python_version", "python_dependencies", "cant-pickle", "non-deterministic",
            "algorithm_type", "capability:missing_values", "capability:multithreading"} |->
        IF k \in {"python_version", "python_dependencies", "algorithm_type"}
        THEN PyNone ELSE PyBool(FALSE)]

\* DiscreteFourierApproximation._tags.
DFATags ==
    [k \in {"capability:multivariate", "X_inner_type", "fit_is_empty"} |->
        IF k = "X_inner_type" THEN PyStr("np.ndarray") ELSE PyBool(TRUE)]

\* The _tags of BaseSeriesTransformer, the parent of
\* DiscreteFourierApproximation: the tags of series transformers, with the
\* values the concrete classes override.
SeriesTags ==
    [k \in {"capability:multivariate", "fit_is_empty", "X_inner_type"} |->
        IF k = "X_inner_type" THEN PyStr("np.ndarray") ELSE PyBool(FALSE)]

\* The _tags attribute of every class that has one of its own, as the class
\* statements create it.  EncoderRegressor has none of its own.
ClassTagsInit ==
    [c \in {DFA, Series, Base} |->
        IF c = DFA THEN DFATags ELSE IF c = Series THEN SeriesTags ELSE BaseTags]

\* The names of the arguments of cls.__init__: the hyper-parameters.  Of
\* EncoderRegressor, a list-valued one and a scalar one are followed.
InitParams(cls) ==
    IF cls = DFA THEN {"r", "sort"}
    ELSE IF cls = Enc THEN {"kernel_size", "n_epochs", "save_best_model"} ELSE {}

\* The default arguments of cls.__init__.
InitDefaults(cls) ==
    IF cls = DFA THEN [r |-> PyFloat(5), sort |-> PyBool(FALSE)]
    ELSE IF cls = Enc
    THEN [kernel_size |-> PyNone, n_epochs |-> PyInt(100), save_best_model |-> PyBool(FALSE)]
    ELSE EmptyDict

\* dir(type(self)): the names of the class attributes.
ClassAttrs(cls) ==
    {"_tags", "reset", "clone", "get_class_tags", "get_class_tag", "get_tags", "get_tag",
     "set_tags", "get_test_params", "create_test_instance",
     "create_test_instances_and_names", "_has_implementation_of", "is_composite",
     "_components", "save", "load_from_serial", "load_from_path", "is_fitted",
     "check_is_fitted", "get_fitted_params", "_get_fitted_params_default",
     "_get_fitted_params", "get_params", "set_params"}
    \cup (IF cls = DFA THEN {"_transform"} ELSE {})
    \cup (IF cls = Enc THEN {"build_model", "_fit", "_get_test_params"} ELSE {})

-----------------------------------------------------------------------------
(* Construction.                                                           *)

\* BaseEstimator.__init__, as an update of the instance __dict__.
BaseInitFittedBug(d) == DictUpdate(d, [_is_fitted |-> PyBool(TRUE), _tags_dynamic |-> PyDict(EmptyDict)])
BaseInit(d) == DictUpdate(d, [_is_fitted |-> PyBool(FALSE), _tags_dynamic |-> PyDict(EmptyDict)])

\* cls.__init__(self, **args) run on an object whose __dict__ is d.
ClsInit(cls, d, args) ==
    IF cls = DFA
    THEN BaseInit(DictUpdate(DictUpdate(d, [r |-> args["r"], sort |-> args["sort"]]),
                             [axis |-> PyInt(1)]))
    ELSE IF cls = Enc
    THEN BaseInit(DictUpdate(d, [kernel_size |-> args["kernel_size"],
                                 save_best_model |-> args["save_best_model"],
                                 n_epochs |-> args["n_epochs"], history |-> PyNone]))
    ELSE BaseInit(d)

\* cls(**args)
New(cls, args) == [cls |-> cls, dict |-> ClsInit(cls, EmptyDict, args)]

\* The empty slot.
NoObj == [cls |-> "", dict |-> EmptyDict]

\* sklearn's get_params(deep=False): the current value of every __init__ argument.
GetParams(o) == [p \in InitParams(o.cls) |-> o.dict[p]]

IsFitted(o) == o.dict["_is_fitted"].v

-----------------------------------------------------------------------------
(* Tags.                                                                   *)

\* parent_class._tags: the _tags of the first class of the chain of cls that
\* has one of its own.
TagsAttr(ct, cls) ==
    LET m == Mro(cls)
        n == CHOOSE k \in DOMAIN m : m[k] \in DOMAIN ct /\ \A j \in 1..(k - 1) : m[j] \notin DOMAIN ct
    IN  ct[m[n]]

\* The loop of get_class_tags over reversed(getmro(cls)[:-2]): the merge of
\* the _tags of m[i], m[i+1], ..., the later (more general) ones applied first.
\* ct is the current _tags attribute of every class.
RECURSIVE CollectTags(_, _, _)
CollectTagsGeneralWinsBug(ct, m, i) ==
    IF i > Len(m) THEN EmptyDict ELSE DictUpdate(TagsAttr(ct, m[i]), CollectTags(ct, m, i + 1))
CollectTags(ct, m, i) ==
    IF i > Len(m) THEN EmptyDict ELSE DictUpdate(CollectTags(ct, m, i + 1), TagsAttr(ct, m[i]))

GetClassTags(ct, cls) == CollectTags(ct, Mro(cls), 1)

\* get_tags: the class tags, updated with the dynamic tags of the instance.
GetTagsClassWins(ct, o) ==
    IF "_tags_dynamic" \in DOMAIN o.dict
    THEN DictUpdate(o.dict["_tags_dynamic"].v, GetClassTags(ct, o.cls))
    ELSE GetClassTags(ct, o.cls)
GetTags(ct, o) ==
    IF "_tags_dynamic" \in DOMAIN o.dict
    THEN DictUpdate(GetClassTags(ct, o.cls), o.dict["_tags_dynamic"].v)
    ELSE GetClassTags(ct, o.cls)

\* An argument left out of a call, and the raise_error a call works with: the
\* default of the signature when the argument is left out.
Omitted == [t |-> "omitted", v |-> 0]
GetTagRaiseErrorDefault == TRUE
GetClassTagRaiseErrorDefault == FALSE
RaiseError(flag, signature_default) == IF flag = Omitted THEN signature_default ELSE flag.v

\* The ValueError of get_tag and get_class_tag.
TagNotFound(name) == "ValueError: Tag with name " \o name \o " could not be found."

\* get_tag(tag_name, tag_value_default, raise_error): whether it raises the
\* ValueError, and the value it returns when it does not.
GetTagRaisesAlwaysBug(ct, o, name, raise_error) == name \notin DOMAIN GetTags(ct, o)
GetTagRaises(ct, o, name, raise_error) == raise_error /\ name \notin DOMAIN GetTags(ct, o)
GetTag(ct, o, name, default) ==
    IF name \in DOMAIN GetTags(ct, o) THEN GetTags(ct, o)[name] ELSE default

\* get_class_tag(tag_name, tag_value_default, raise_error)
GetClassTagRaises(ct, cls, name, raise_error) ==
    raise_error /\ name \notin DOMAIN GetClassTags(ct, cls)
GetClassTag(ct, cls, name, default) ==
    IF name \in DOMAIN GetClassTags(ct, cls) THEN GetClassTags(ct, cls)[name] ELSE default

\* set_tags(**tag_dict) on the instance __dict__ d.
SetTagsDict(d, tag_dict) ==
    IF "_tags_dynamic" \in DOMAIN d
    THEN DictUpdate(d, [_tags_dynamic |-> PyDict(DictUpdate(d["_tags_dynamic"].v, tag_dict))])
    ELSE DictUpdate(d, [_tags_dynamic |-> PyDict(tag_dict)])

-----------------------------------------------------------------------------
(* Reset and clone.                                                        *)

\* The values of the keep argument of reset: its type, the strings it holds
\* (names) and the values it holds that are not strings (other).
KeepNone == [kind |-> "None", names |-> <<>>, other |-> <<>>]
KeepStr(k) == [kind |-> "str", names |-> <<k>>, other |-> <<>>]
KeepList(ks) == [kind |-> "list", names |-> ks, other |-> <<>>]
KeepTuple(ks) == [kind |-> "tuple", names |-> ks, other |-> <<>>]
KeepInt(n) == [kind |-> "int", names |-> <<>>, other |-> <<PyInt(n)>>]
KeepMixed(ks, other) == [kind |-> "list", names |-> ks, other |-> other]

\* reset raises a TypeError: keep is not None, not a str and not a list, or
\* set.discard is given an element of the list that cannot be hashed.  An
\* element that is not a string but can be hashed is discarded like any other.
ResetRaises(keep) ==
    \/ keep.kind \notin {"None", "str", "list"}
    \/ \E n \in DOMAIN keep.other : keep.other[n].t \in {"dict", "list", "set"}

\* self_attrs of reset: the instance attributes it deletes.
ResetAttrs(o, keep) ==
    ({a \in DOMAIN o.dict : ~Contains(a, "__")} \ ClassAttrs(o.cls))
        \ (IF keep.kind = "None" THEN {} ELSE Range(keep.names))

\* reset(keep) without the TypeError: delete, then run __init__ with the
\* parameters read at the start.
ResetDefaultsBug(o, keep) ==
    [cls |-> o.cls,
     dict |-> ClsInit(o.cls, DictDel(o.dict, ResetAttrs(o, keep)), InitDefaults(o.cls))]
ResetObj(o, keep) ==
    [cls |-> o.cls,
     dict |-> ClsInit(o.cls, DictDel(o.dict, ResetAttrs(o, keep)), GetParams(o))]

\* clone(param, safe=False) of sklearn.clone, for a parameter that is not an
\* estimator: copy.deepcopy(param).  The copy of a list is the list at the
\* address a; a value that cannot be changed in place is the same value.
DeepCopySameBug(param, a) == param
DeepCopy(param, a) == IF param.t = "list" THEN PyList(a) ELSE param

\* sklearn.clone(self): the class constructed on copies of the parameters; a
\* is the address a copied list gets.
CloneCopyBug(o, a) == o
CloneKeepsTagsBug(o, a) ==
    [cls |-> o.cls,
     dict |-> DictUpdate(New(o.cls, [p \in DOMAIN GetParams(o) |-> DeepCopy(GetParams(o)[p], a)]).dict,
                         [_tags_dynamic |-> o.dict["_tags_dynamic"]])]
CloneSharesBug(o, a) == New(o.cls, GetParams(o))
CloneObj(o, a) == New(o.cls, [p \in DOMAIN GetParams(o) |-> DeepCopy(GetParams(o)[p], a)])

-----------------------------------------------------------------------------
(* Fitted parameters.                                                      *)

\* check_is_fitted raises NotFittedError: `if not self.is_fitted`.
CheckIsFittedNeverBug(o) == FALSE
CheckIsFittedRaises(o) == ~IsFitted(o)

GetFittedParamsRaises(o) == ~IsFitted(o)

\* sh(x): x without its trailing underscores.
RECURSIVE Sh(_)
Sh(x) == IF EndsWith(x, "_") THEN Sh(SubSeq(x, 1, Len(x) - 1)) ELSE x

\* _get_fitted_params_default(obj): the attributes whose names end in "_" and
\* do not start with "_", keyed by the name without its last character.  No
\* class attribute has such a name, so dir(obj) contributes the instance
\* attributes only.
GetFittedParamsDefault(o) ==
    LET names == {a \in DOMAIN o.dict : EndsWith(a, "_") /\ ~StartsWith(a, "_")}
    IN  [k \in {SubSeq(a, 1, Len(a) - 1) : a \in names} |-> o.dict[k \o "_"]]

\* self._get_fitted_params(): the default, or what the override of the class
\* returns, here a value for "coef" that is not the attribute coef_.
OverriddenFittedParams(o) == [coef |-> PyInt(0)]
GetFittedParamsOwn(o) ==
    IF o.cls = Ovr THEN OverriddenFittedParams(o) ELSE GetFittedParamsDefault(o)

\* isinstance(y, BaseEstimator), and isinstance(y, sklearn's BaseEstimator),
\* which aeon's BaseEstimator extends.
IsAeonEstimator(y) == y.t = "BaseEstimator"
IsSklearnEstimator(y) == y.t \in {"BaseEstimator", "sklearn"}

\* _components(): the instance attributes that are not hyper-parameters, have
\* no "__" in their names and hold aeon estimators.
Components(o) ==
    LET self_attrs == ({a \in DOMAIN o.dict : ~Contains(a, "__")} \ ClassAttrs(o.cls))
                          \ InitParams(o.cls)
    IN  [x \in {a \in self_attrs : IsAeonEstimator(o.dict[a])} |-> o.dict[x]]

\* isinstance(y, base_class) for a class of aeon: y refers to an object of the
\* heap H whose class has base_class in its chain.
IsInstance(H, y, base_class) ==
    y.t = "BaseEstimator" /\ base_class \in Range(Mro(H[y.v].cls))

\* _components(base_class) without the TypeError; base_class "None" stands for
\* the default.  The values are the attribute values themselves.
ComponentsOfHiddenBug(H, o, base_class) ==
    LET b == IF base_class = "None" THEN Base ELSE base_class
        self_attrs == (DOMAIN o.dict \ ClassAttrs(o.cls)) \ InitParams(o.cls)
    IN  [x \in {a \in self_attrs : IsInstance(H, o.dict[a], b)} |-> o.dict[x]]
ComponentsOf(H, o, base_class) ==
    LET b == IF base_class = "None" THEN Base ELSE base_class
        self_attrs == ({a \in DOMAIN o.dict : ~Contains(a, "__")} \ ClassAttrs(o.cls))
                          \ InitParams(o.cls)
    IN  [x \in {a \in self_attrs : IsInstance(H, o.dict[a], b)} |-> o.dict[x]]

\* _components raises the TypeError: base_class is neither None nor a class.
ComponentsRaises(base_class) == base_class \notin {"None", DFA, Enc, Series, Base}

\* {f"{sh(c)}__{k}": v for k, v in d.items()}
Namespaced(c, d) ==
    [key \in {Sh(c) \o "__" \o k : k \in DOMAIN d} |->
        d[CHOOSE k \in DOMAIN d : Sh(c) \o "__" \o k = key]]

\* The update of a dict with every dict of the set S.  Where two of them hold
\* the same key, the value is that of one of them.
UpdateAll(d, S) ==
    [k \in (DOMAIN d) \cup UNION {DOMAIN e : e \in S} |->
        IF \E e \in S : k \in DOMAIN e THEN (CHOOSE e \in S : k \in DOMAIN e)[k] ELSE d[k]]

\* The while loop of get_fitted_params over the sklearn estimators among the
\* values found last: H is the heap the references point into.
RECURSIVE NestedSklearn(_, _, _)
NestedSklearn(H, fitted_params, old_new_params) ==
    LET ests == {c \in DOMAIN old_new_params : IsSklearnEstimator(old_new_params[c])}
        new_params == UpdateAll(EmptyDict,
            {Namespaced(c, GetFittedParamsDefault(H[old_new_params[c].v])) : c \in ests})
    IN  IF DOMAIN new_params = {}
        THEN fitted_params
        ELSE NestedSklearn(H, DictUpdate(fitted_params, new_params), new_params)

\* get_fitted_params(deep) of a fitted estimator o of the heap H.
RECURSIVE GetFittedParams(_, _, _)
GetFittedParamsShallowBug(H, o, deep) == GetFittedParamsOwn(o)
GetFittedParams(H, o, deep) ==
    LET own == GetFittedParamsOwn(o)
        c_dict == Components(o)
        fitted == {c \in DOMAIN c_dict : IsFitted(H[c_dict[c].v])}
        with_components == UpdateAll(own,
            {Namespaced(c, GetFittedParams(H, H[c_dict[c].v], TRUE)) : c \in fitted})
    IN  IF ~deep THEN own ELSE NestedSklearn(H, with_components, with_components)

-----------------------------------------------------------------------------
(* Serialization.                                                          *)

\* The items of a dict, as a sequence of <<key, value>> pairs.
RECURSIVE Items(_)
Items(d) ==
    IF DOMAIN d = {} THEN <<>>
    ELSE LET k == CHOOSE x \in DOMAIN d : TRUE
         IN  <<(<<k, d[k]>>)>> \o Items(DictDel(d, {k}))

\* The dict of a sequence of <<key, value>> pairs.
FromItems(s) ==
    [k \in {s[n][1] : n \in DOMAIN s} |-> s[CHOOSE n \in DOMAIN s : s[n][1] = k][2]]

\* pickle.dumps(self): the class, by reference, and the items of the instance
\* __dict__.  pickle.dumps(type(self)): the class, by reference.
Dumps(o) == [kind |-> "object", cls |-> o.cls, items |-> Items(o.dict)]
DumpsType(cls) == [kind |-> "type", cls |-> cls, items |-> <<>>]
NoBytes == [kind |-> "", cls |-> "", items |-> <<>>]

\* pickle.loads of the bytes of an object: an instance of the class, made
\* without __init__, with the pickled items as its __dict__.
LoadsInitBug(b) == New(b.cls, InitDefaults(b.cls))
Loads(b) == [cls |-> b.cls, dict |-> FromItems(b.items)]

\* save(None): the pair (type(self), pickle.dumps(self)).
SaveSerialValue(o) == [type |-> o.cls, bytes |-> Dumps(o)]
NoSerial == [type |-> "", bytes |-> NoBytes]

\* The index of the last occurrence of the character c in s, or 0.
RFind(s, c) ==
    LET at == {i \in 1..Len(s) : SubSeq(s, i, i) = c}
    IN  IF at = {} THEN 0 ELSE CHOOSE i \in at : \A j \in at : j <= i

\* Path(name).stem: the name without its last suffix.
Stem(name) ==
    LET i == RFind(name, ".")
    IN  IF 1 < i /\ i < Len(name) THEN SubSeq(name, 1, i - 1) ELSE name

\* The file shutil.make_archive(base_name=path, format="zip") writes, and the
\* file save opens for its result, path.with_name(f"{path.stem}.zip").
ArchiveName(name) == name \o ".zip"
HandleName(name) == Stem(name) \o ".zip"

\* The archive save writes: the entries _metadata and _obj.
Archive(o) == [_metadata |-> DumpsType(o.cls), _obj |-> Dumps(o)]

\* save raises the TypeError: path is neither a str nor a Path.
SavePathRaises(path) == path.t \notin {"str", "Path"}

\* ZipFile(file, "r"): "ok" when file is the location of an archive of the
\* file system f; a location without a file cannot be opened, and an object
\* that is not a location is read as a file object, which a ZipFile is not.
ZipFileOpen(f, file) ==
    IF file.t \in {"str", "Path"}
    THEN IF file.v \in DOMAIN f THEN "ok" ELSE "FileNotFoundError"
    ELSE "AttributeError"

\* load_from_path(serial) on the file system f: the outcome and the object.
LoadFromPathValue(f, serial) ==
    IF ZipFileOpen(f, serial) = "ok"
    THEN [ret |-> "estimator", obj |-> Loads(f[serial.v]["_obj"])]
    ELSE [ret |-> ZipFileOpen(f, serial), obj |-> NoObj]

-----------------------------------------------------------------------------
(* State.                                                                  *)

VARIABLES
    heap,     \* slot -> estimator object (class and instance __dict__), or NoObj
    ctags,    \* class -> the _tags attribute of the class
    taglog,   \* slot -> the set_tags calls made on the object: for every tag name, the
              \* last value passed, ever (.ever) and since __init__ last ran (.cur)
    last,     \* the most recent call: operation, receiver, arguments, outcome
    serial,   \* the value returned by the most recent save(None)
    fs,       \* the file system: file name -> archive
    handle,   \* the value returned by the most recent save(path)
    lists     \* address -> the list object at that address

vars == <<heap, ctags, taglog, last, serial, fs, handle, lists>>
store == <<ctags, serial, fs, handle, lists>>

\* The addresses of list objects, the cell of an address that holds no list,
\* and the addresses of the lists the object o refers to.
Addrs == 1..MaxList
NoList == [alloc |-> FALSE, items |-> <<>>]
ListOf(items) == [alloc |-> TRUE, items |-> items]
DictRefs(d) == {d[k].v : k \in {x \in DOMAIN d : d[x].t = "list"}}
Refs(o) == DictRefs(o.dict)

\* The address of the list the caller of set_tags holds, the addresses of the
\* lists the estimators hold as attributes or as dynamic tags, and those of
\* the lists the value x refers to.
ArgAddr == 1
StoredRefs(H) ==
    UNION {Refs(H[k]) \cup (IF "_tags_dynamic" \in DOMAIN H[k].dict
                            THEN DictRefs(H[k].dict["_tags_dynamic"].v) ELSE {}) : k \in Oids}
ValRefs(x) == IF x.t = "list" THEN {x.v} ELSE IF x.t = "dict" THEN DictRefs(x.v) ELSE {}

\* The lowest address outside the set used, and the store L without the
\* lists at the addresses outside the set used.
Fresh(used) == CHOOSE x \in Addrs \ used : \A y \in Addrs \ used : x <= y
Collect(L, used) == [x \in Addrs |-> IF x \in used THEN L[x] ELSE NoList]

Live(i) == heap[i] # NoObj
NoLog == [ever |-> EmptyDict, cur |-> EmptyDict]

\* A call on the object in slot i: its result goes to slot j, fitted0 is the
\* fitted flag of the receiver when the call is made.
Call(op, i, j, keep, ret) ==
    [op |-> op, obj |-> i, dst |-> j, keep |-> keep, path |-> PyNone, ret |-> ret,
     fitted0 |-> IsFitted(heap[i]),
     name |-> "", default |-> PyNone, flag |-> Omitted, val |-> PyNone, arg |-> PyNone,
     pass |-> 0]
\* A tag lookup: the tag name, the default and the raise_error passed (or
\* Omitted), and the value returned.
CallLookup(op, i, name, default, flag, ret, val) ==
    [Call(op, i, i, KeepNone, ret) EXCEPT
        !.name = name, !.default = default, !.flag = flag, !.val = val]
\* A call with a path argument.
CallPath(op, i, j, path, ret) == [Call(op, i, j, KeepNone, ret) EXCEPT !.path = path]

\* The arguments the model draws.
RVals == {PyFloat(5), PyFloat(10)}
CtorArgs(cls) ==
    IF cls = DFA
    THEN {[r |-> r, sort |-> PyBool(b)] : r \in RVals, b \in BOOLEAN}
    ELSE {EmptyDict}
ParamVals(p) == IF p = "r" THEN RVals ELSE {PyBool(TRUE), PyBool(FALSE)}
TagArgNames == {"capability:missing_values", "custom:tag"}
TagArgVals == {PyBool(TRUE), PyBool(FALSE)}
FittedNames == {"coef_"}
\* What a fit of an estimator without components writes.
FitWrites == {[a \in S |-> PyInt(1)] : S \in SUBSET FittedNames}
\* The attributes in which the fit of a composite holds its components, and
\* what the fit of the estimator in slot i may write: fitted attributes, and
\* components among the objects of the later slots.
ComponentNames == {"comp_", "_comp"}
CompositeWrites(i) ==
    {DictUpdate(DictUpdate(w, c), x) :
        w \in FitWrites,
        c \in UNION {[S -> {PyEst(j) : j \in (i + 1)..MaxObj}] : S \in SUBSET ComponentNames},
        x \in IF i = 1 THEN {EmptyDict, [comp__coef_ |-> PyInt(2)]} ELSE {EmptyDict}}
KeepArgs ==
    {KeepNone, KeepStr("_is_fitted"), KeepStr("_tags_dynamic"), KeepStr("coef_"),
     KeepStr("r"), KeepList(<<"coef_", "_is_fitted">>), KeepList(<<>>), KeepTuple(<<"coef_">>),
     KeepInt(1), KeepMixed(<<"coef_">>, <<PyInt(1)>>), KeepMixed(<<>>, <<PyDict(EmptyDict)>>)}

Init ==
    /\ \E args \in CtorArgs(DFA) : heap = [i \in Oids |-> IF i = 1 THEN New(DFA, args) ELSE NoObj]
    /\ ctags = ClassTagsInit
    /\ taglog = [i \in Oids |-> NoLog]
    /\ last = Call("init", 1, 1, KeepNone, "None")
    /\ serial = NoSerial
    /\ fs = EmptyDict
    /\ handle = PyNone
    /\ lists = [a \in Addrs |-> NoList]

-----------------------------------------------------------------------------
(* Operations.                                                             *)

\* sklearn's set_params(p=v): setattr(self, p, v) for an __init__ argument p.
SetParams(i, p, v) ==
    /\ Live(i) /\ p \in InitParams(heap[i].cls)
    /\ heap' = [heap EXCEPT ![i].dict = DictUpdate(@, (p :> v))]
    /\ last' = Call("set_params", i, i, KeepNone, "self")
    /\ UNCHANGED <<taglog, store>>

\* self.<name> = v: an instance attribute written by the code of the
\* estimator or of its user.
SetAttr(i, name, v) ==
    /\ Live(i)
    /\ heap' = [heap EXCEPT ![i].dict = DictUpdate(@, (name :> v))]
    /\ last' = CallLookup("setattr", i, name, PyNone, Omitted, "None", v)
    /\ UNCHANGED <<taglog, store>>

\* self.<p>[0] = v: a change made in place to the list a hyper-parameter holds.
SetItem(i, p, v) ==
    /\ Live(i) /\ p \in InitParams(heap[i].cls) /\ heap[i].dict[p].t = "list"
    /\ lists' = [lists EXCEPT ![heap[i].dict[p].v].items = <<v>> \o Tail(@)]
    /\ last' = CallLookup("setitem", i, p, PyNone, Omitted, "None", PyInt(v))
    /\ UNCHANGED <<heap, taglog, ctags, serial, fs, handle>>

\* set_tags(name=v)
SetTagsClassBug(i, name, v) ==
    /\ Live(i)
    /\ ctags' = [ctags EXCEPT ![Base] = DictUpdate(@, (name :> v))]
    /\ taglog' = [taglog EXCEPT ![i] = [ever |-> DictUpdate(@.ever, (name :> v)),
                                         cur |-> DictUpdate(@.cur, (name :> v))]]
    /\ last' = Call("set_tags", i, i, KeepNone, "self")
    /\ UNCHANGED <<heap, serial, fs, handle, lists>>
SetTags(i, name, v) ==
    /\ Live(i)
    /\ LET a == Fresh(StoredRefs(heap) \cup {ArgAddr})
           tag_update == (name :> DeepCopy(v, a))
       IN  /\ heap' = [heap EXCEPT ![i].dict = SetTagsDict(@, tag_update)]
           /\ lists' = IF v.t = "list"
                        THEN Collect([lists EXCEPT ![a] = lists[v.v]],
                                     StoredRefs(heap') \cup {ArgAddr})
                        ELSE lists
    /\ taglog' = [taglog EXCEPT ![i] = [ever |-> DictUpdate(@.ever, (name :> v)),
                                         cur |-> DictUpdate(@.cur, (name :> v))]]
    /\ last' = Call("set_tags", i, i, KeepNone, "self")
    /\ UNCHANGED <<ctags, serial, fs, handle>>

\* fit: starts from the post-init state, computes the attributes `written`
\* (a dict), and sets the fitted flag last, when nothing has failed.
FitObj(o, ok, written) ==
    LET fresh == ResetObj(o, KeepNone)
        d == DictUpdate(fresh.dict, written)
    IN  [cls |-> o.cls,
         dict |-> IF ok THEN DictUpdate(d, [_is_fitted |-> PyBool(TRUE)]) ELSE d]

Fit(i, ok, written) ==
    /\ Live(i)
    /\ heap' = [heap EXCEPT ![i] = FitObj(@, ok, written)]
    /\ taglog' = [taglog EXCEPT ![i].cur = EmptyDict]
    /\ last' = Call("fit", i, i, KeepNone, IF ok THEN "self" ELSE "Exception")
    /\ UNCHANGED store

\* reset(keep)
Reset(i, keep) ==
    /\ Live(i)
    /\ IF ResetRaises(keep)
       THEN /\ UNCHANGED <<heap, taglog>>
            /\ last' = Call("reset", i, i, keep, "TypeError")
       ELSE /\ heap' = [heap EXCEPT ![i] = ResetObj(@, keep)]
            /\ taglog' = [taglog EXCEPT ![i].cur = EmptyDict]
            /\ last' = Call("reset", i, i, keep, "self")
    /\ UNCHANGED store

\* heap[j] = heap[i].clone(): the clone is a new object bound to slot j.  The
\* object slot j held before, and the lists only it referred to, are gone.
Clone(i, j) ==
    /\ Live(i) /\ i # j
    /\ LET used == UNION {Refs(heap[k]) : k \in Oids \ {j}}
           a == CHOOSE x \in Addrs \ used : \A y \in Addrs \ used : x <= y
           new == CloneObj(heap[i], a)
           copies == Refs(new) \ used
       IN  /\ heap' = [heap EXCEPT ![j] = new]
           /\ lists' = [x \in Addrs |->
                            IF x \in copies THEN lists[CHOOSE y \in Refs(heap[i]) : TRUE]
                            ELSE IF x \in used THEN lists[x] ELSE NoList]
    /\ taglog' = [taglog EXCEPT ![j] = NoLog]
    /\ last' = Call("clone", i, j, KeepNone, "estimator")
    /\ UNCHANGED <<ctags, serial, fs, handle>>

\* check_is_fitted()
CheckIsFitted(i) ==
    /\ Live(i)
    /\ last' = Call("check_is_fitted", i, i, KeepNone,
                    IF CheckIsFittedRaises(heap[i]) THEN "NotFittedError" ELSE "None")
    /\ UNCHANGED <<heap, taglog, store>>

\* get_fitted_params(deep)
GetFittedParamsCall(i, deep) ==
    /\ Live(i)
    /\ last' = Call(IF deep THEN "get_fitted_params" ELSE "get_fitted_params_shallow", i, i,
                    KeepNone,
                    IF GetFittedParamsRaises(heap[i]) THEN "NotFittedError" ELSE "dict")
    /\ UNCHANGED <<heap, taglog, store>>

\* The lifecycle of the estimator in slot 1 and of its clones.
Next ==
    \/ \E p \in {"r", "sort"} : \E v \in ParamVals(p) : SetParams(1, p, v)
    \/ \E v \in TagArgVals : SetTags(1, "capability:missing_values", v)
    \/ \E ok \in BOOLEAN, written \in FitWrites : Fit(1, ok, written)
    \/ \E keep \in KeepArgs : Reset(1, keep)
    \/ \E j \in Oids \ {1} : Clone(1, j)
    \/ \E i \in Oids : CheckIsFitted(i)
    \/ \E i \in Oids, deep \in BOOLEAN : GetFittedParamsCall(i, deep)

Spec == Init /\ [][Next]_vars

\* serial = heap[i].save(None)
SaveSerial(i) ==
    /\ Live(i)
    /\ serial' = SaveSerialValue(heap[i])
    /\ last' = Call("save", i, i, KeepNone, "tuple")
    /\ UNCHANGED <<heap, taglog, ctags, fs, handle, lists>>

\* heap[j] = load_from_serial(serial[1])
LoadFromSerial(j) ==
    /\ serial # NoSerial
    /\ heap' = [heap EXCEPT ![j] = Loads(serial.bytes)]
    /\ taglog' = [taglog EXCEPT ![j] = NoLog]
    /\ last' = Call("load_from_serial", 1, j, KeepNone, "estimator")
    /\ UNCHANGED <<ctags, serial, fs, handle, lists>>

\* handle = heap[i].save(path): the temporary directory path is made and
\* removed within the call; the archive stays.
SavePathNoCheckBug(i, path) ==
    /\ Live(i)
    /\ last' = CallPath("save", i, i, path, "AttributeError")
    /\ UNCHANGED <<heap, taglog, store>>
SavePath(i, path) ==
    /\ Live(i)
    /\ IF SavePathRaises(path)
       THEN /\ last' = CallPath("save", i, i, path, "TypeError")
            /\ UNCHANGED <<fs, handle>>
       ELSE IF path.v \in DOMAIN fs
       THEN /\ last' = CallPath("save", i, i, path, "FileExistsError")
            /\ UNCHANGED <<fs, handle>>
       ELSE LET written == DictUpdate(fs, (ArchiveName(path.v) :> Archive(heap[i])))
            IN  /\ fs' = written
                /\ IF HandleName(path.v) \in DOMAIN written
                   THEN /\ handle' = [t |-> "ZipFile", v |-> HandleName(path.v)]
                        /\ last' = CallPath("save", i, i, path, "ZipFile")
                   ELSE /\ UNCHANGED handle
                        /\ last' = CallPath("save", i, i, path, "FileNotFoundError")
    /\ UNCHANGED <<heap, taglog, ctags, serial, lists>>

\* heap[j] = load_from_path(file)
LoadFromPath(j, file) ==
    /\ LET r == LoadFromPathValue(fs, file)
       IN  /\ heap' = IF r.ret = "estimator" THEN [heap EXCEPT ![j] = r.obj] ELSE heap
           /\ taglog' = IF r.ret = "estimator" THEN [taglog EXCEPT ![j] = NoLog] ELSE taglog
           /\ last' = CallPath("load_from_path", 1, j, file, r.ret)
    /\ UNCHANGED <<ctags, serial, fs, handle, lists>>

\* The locations save(path) is given.
PathArgs == {PyStr("model"), PyStr("model.v1"), PyInt(1)}

\* In-memory serialization of the estimator in slot 1.
NextSerial ==
    \/ \E v \in RVals : SetParams(1, "r", v)
    \/ \E ok \in BOOLEAN, written \in FitWrites : Fit(1, ok, written)
    \/ SaveSerial(1)
    \/ \E j \in Oids \ {1} : LoadFromSerial(j)

SpecSerial == Init /\ [][NextSerial]_vars

\* Serialization of the estimator in slot 1 to files.
NextPath ==
    \/ \E v \in RVals : SetParams(1, "r", v)
    \/ \E written \in FitWrites \ {EmptyDict} : Fit(1, TRUE, written)
    \/ Reset(1, KeepNone)
    \/ \E path \in PathArgs : SavePath(1, path)
    \/ \E j \in Oids \ {1} : \E file \in {handle} \cup {PyStr(n) : n \in DOMAIN fs} :
            LoadFromPath(j, file)

SpecPath == Init /\ [][NextPath]_vars

\* A composite estimator and the components its fit creates: every slot holds
\* an estimator, and an estimator owns components of later slots only.
InitComposite ==
    /\ heap = [i \in Oids |-> New(DFA, InitDefaults(DFA))]
    /\ ctags = ClassTagsInit
    /\ taglog = [i \in Oids |-> NoLog]
    /\ last = Call("init", 1, 1, KeepNone, "None")
    /\ serial = NoSerial
    /\ fs = EmptyDict
    /\ handle = PyNone
    /\ lists = [a \in Addrs |-> NoList]

NextComposite ==
    \/ \E i \in Oids : \E written \in CompositeWrites(i) : Fit(i, TRUE, written)
    \/ \E i \in Oids, deep \in BOOLEAN : GetFittedParamsCall(i, deep)

SpecComposite == InitComposite /\ [][NextComposite]_vars

\* A composite whose components are of a class that overrides
\* _get_fitted_params; reset(keep="coef_") leaves an estimator that is not
\* fitted and has the attribute coef_.
InitNested ==
    /\ heap = [i \in Oids |-> IF i = 1 THEN New(DFA, InitDefaults(DFA)) ELSE New(Ovr, EmptyDict)]
    /\ ctags = ClassTagsInit
    /\ taglog = [i \in Oids |-> NoLog]
    /\ last = Call("init", 1, 1, KeepNone, "None")
    /\ serial = NoSerial
    /\ fs = EmptyDict
    /\ handle = PyNone
    /\ lists = [a \in Addrs |-> NoList]

NextNested ==
    \/ \E i \in Oids : \E written \in CompositeWrites(i) : Fit(i, TRUE, written)
    \/ \E i \in Oids : Reset(i, KeepStr("coef_"))
    \/ \E i \in Oids : GetFittedParamsCall(i, TRUE)

SpecNested == InitNested /\ [][NextNested]_vars

-----------------------------------------------------------------------------
(* get_fitted_params(deep=True), pass by pass.                             *)

\* Number of passes of the while loop that are followed.
MaxPass == 4

\* The slots of the fitted components of the object in slot j, and the slots
\* the nested calls of get_fitted_params reach from the slots S in n calls.
FittedComps(H, j) ==
    {Components(H[j])[c].v : c \in {x \in DOMAIN Components(H[j]) : IsFitted(H[Components(H[j])[x].v])}}
RECURSIVE Closure(_, _, _)
Closure(H, S, n) ==
    IF n = 0 THEN S ELSE Closure(H, S \cup UNION {FittedComps(H, j) : j \in S}, n - 1)

\* comp.get_fitted_params() calls itself without end: a fitted component is
\* reached again from itself.  Python ends the calls with RecursionError.
Recursive(H, i) ==
    \E j \in Closure(H, {i}, MaxObj) : j \in Closure(H, FittedComps(H, j), MaxObj)

\* new_params of one pass of the while loop, for old_new_params.
NewParams(H, old_new_params) ==
    LET ests == {c \in DOMAIN old_new_params : IsSklearnEstimator(old_new_params[c])}
    IN  UpdateAll(EmptyDict,
            {Namespaced(c, GetFittedParamsDefault(H[old_new_params[c].v])) : c \in ests})

\* No call of get_fitted_params is under way.
Idle == last.ret # "running"

\* get_fitted_params(deep=True) on the object in slot i, up to the while
\* loop: last.val is fitted_params and last.arg is old_new_params.
DeepStart(i) ==
    /\ Live(i) /\ Idle
    /\ LET o == heap[i]
           c_dict == Components(o)
           fitted == {c \in DOMAIN c_dict : IsFitted(heap[c_dict[c].v])}
           call == Call("get_fitted_params", i, i, KeepNone, "running")
       IN  last' =
             IF GetFittedParamsRaises(o) THEN [call EXCEPT !.ret = "NotFittedError"]
             ELSE IF Recursive(heap, i) THEN [call EXCEPT !.ret = "RecursionError"]
             ELSE LET fitted_params == UpdateAll(GetFittedParamsOwn(o),
                          {Namespaced(c, GetFittedParams(heap, heap[c_dict[c].v], TRUE)) :
                              c \in fitted})
                  IN  [call EXCEPT !.val = PyDict(fitted_params), !.arg = PyDict(fitted_params)]
    /\ UNCHANGED <<heap, taglog, store>>

\* One pass of the while loop; the call returns after a pass without new
\* parameters.
DeepPass ==
    /\ last.op = "get_fitted_params" /\ last.ret = "running" /\ last.pass < MaxPass
    /\ LET new_params == NewParams(heap, last.arg.v)
       IN  last' = [last EXCEPT !.val = PyDict(DictUpdate(@.v, new_params)),
                                !.arg = PyDict(new_params),
                                !.pass = @ + 1,
                                !.ret = IF DOMAIN new_params = {} THEN "dict" ELSE "running"]
    /\ UNCHANGED <<heap, taglog, store>>

\* The estimator in slot 1 is fitted; it and the other objects, which are not
\* fitted, refer to one another through the attributes comp_ and _comp.
NextDeep ==
    \/ Idle /\ \E written \in FitWrites : Fit(1, TRUE, written)
    \/ Idle /\ \E i \in Oids, j \in Oids : SetAttr(i, "comp_", PyEst(j))
    \/ Idle /\ \E j \in Oids : SetAttr(1, "_comp", PyEst(j))
    \/ DeepStart(1)
    \/ DeepPass

SpecDeep == InitComposite /\ [][NextDeep]_vars /\ WF_vars(DeepPass)

\* The tags of the objects of one class: set_tags on every object, reset and
\* clone, starting from DiscreteFourierApproximation().
InitTags ==
    /\ heap = [i \in Oids |-> IF i = 1 THEN New(DFA, InitDefaults(DFA)) ELSE NoObj]
    /\ ctags = ClassTagsInit
    /\ taglog = [i \in Oids |-> NoLog]
    /\ last = Call("init", 1, 1, KeepNone, "None")
    /\ serial = NoSerial
    /\ fs = EmptyDict
    /\ handle = PyNone
    /\ lists = [a \in Addrs |-> NoList]

NextTags ==
    \/ \E i \in Oids, v \in TagArgVals : SetTags(i, "capability:missing_values", v)
    \/ \E i \in Oids : SetTags(i, "custom:tag", PyBool(TRUE))
    \/ \E i \in Oids, keep \in {KeepNone, KeepStr("_tags_dynamic")} : Reset(i, keep)
    \/ \E i \in Oids, j \in Oids : Clone(i, j)

SpecTags == InitTags /\ [][NextTags]_vars

\* The instance attributes written between resets: a fitted attribute, an
\* intermediate state, an attribute with the name of a class attribute, and an
\* attribute with "__" in its name.
AttrNames == {"coef_", "_cache", "_tags", "state__x"}

\* Instance attributes of the estimator in slot 1, and its reset.
NextReset ==
    \/ \E v \in RVals : SetParams(1, "r", v)
    \/ \E name \in AttrNames : SetAttr(1, name, PyInt(1))
    \/ \E written \in FitWrites : Fit(1, TRUE, written)
    \/ \E keep \in {KeepNone, KeepStr("_cache")} : Reset(1, keep)

SpecReset == InitTags /\ [][NextReset]_vars

\* An EncoderRegressor whose kernel_size is a list or None, its clones, and
\* the operations on the original and on the clones.
KernelSizes == {5, 11}
InitClone ==
    /\ \E k \in {PyNone, PyList(1)} :
        /\ heap = [i \in Oids |-> IF i = 1
                                   THEN New(Enc, DictUpdate(InitDefaults(Enc), [kernel_size |-> k]))
                                   ELSE NoObj]
        /\ lists = [a \in Addrs |-> IF PyList(a) = k THEN ListOf(<<5>>) ELSE NoList]
    /\ ctags = ClassTagsInit
    /\ taglog = [i \in Oids |-> NoLog]
    /\ last = Call("init", 1, 1, KeepNone, "None")
    /\ serial = NoSerial
    /\ fs = EmptyDict
    /\ handle = PyNone

NextClone ==
    \/ \E i \in Oids, j \in Oids : Clone(i, j)
    \/ \E i \in Oids, v \in KernelSizes : SetItem(i, "kernel_size", v)
    \/ \E i \in Oids : SetTags(i, "capability:missing_values", PyBool(TRUE))
    \/ \E i \in Oids : Fit(i, TRUE, [coef_ |-> PyInt(1)])
    \/ \E i \in Oids : Reset(i, KeepNone)

SpecClone == InitClone /\ [][NextClone]_vars

\* _components(base_class) on the object in slot i: the dict it returns is in
\* last.val.
ComponentsCall(i, base_class) ==
    /\ Live(i)
    /\ last' = IF ComponentsRaises(base_class)
               THEN CallLookup("_components", i, base_class, PyNone, Omitted, "TypeError", PyNone)
               ELSE CallLookup("_components", i, base_class, PyNone, Omitted, "dict",
                               PyDict(ComponentsOf(heap, heap[i], base_class)))
    /\ UNCHANGED <<heap, taglog, store>>

\* The estimator in slot 1 with estimators and other values in attributes of
\* several kinds: a fitted attribute, an attribute with "__" in its name, an
\* attribute with the name of a class attribute, and a hyper-parameter.
ComponentAttrs == {"comp_", "state__est", "_transform"}
ComponentVals == {PyEst(MaxObj), PyInt(1)}
BaseClassArgs == {"None", Series, Enc, "1"}

NextComponents ==
    \/ \E name \in ComponentAttrs, v \in ComponentVals : SetAttr(1, name, v)
    \/ \E v \in {PyEst(MaxObj), PyFloat(5)} : SetParams(1, "r", v)
    \/ \E base_class \in BaseClassArgs : ComponentsCall(1, base_class)
    \/ SetTags(MaxObj, "capability:missing_values", PyBool(TRUE))
    \/ Reset(1, KeepNone)

SpecComponents == InitComposite /\ [][NextComponents]_vars

\* is_composite(): whether a hyper-parameter holds an estimator.
IsComposite(o) == \E p \in DOMAIN GetParams(o) : IsAeonEstimator(GetParams(o)[p])

IsCompositeCall(i) ==
    /\ Live(i)
    /\ last' = CallLookup("is_composite", i, "", PyNone, Omitted, "bool", PyBool(IsComposite(heap[i])))
    /\ UNCHANGED <<heap, taglog, store>>

\* get_tag(name, default, flag) on the object in slot i; default and flag may
\* be Omitted.
GetTagCall(i, name, default, flag) ==
    /\ Live(i)
    /\ LET tag_value_default == IF default = Omitted THEN PyNone ELSE default
           raise_error == RaiseError(flag, GetTagRaiseErrorDefault)
           a == Fresh(StoredRefs(heap) \cup {ArgAddr})
           found == GetTag(ctags, heap[i], name, tag_value_default)
           tag_value == DeepCopy(found, a)
       IN  IF GetTagRaises(ctags, heap[i], name, raise_error)
           THEN /\ last' = CallLookup("get_tag", i, name, default, flag, TagNotFound(name),
                                       PyNone)
                /\ UNCHANGED lists
           ELSE /\ last' = CallLookup("get_tag", i, name, default, flag, "value", tag_value)
                /\ lists' = IF found.t = "list"
                             THEN Collect([lists EXCEPT ![a] = lists[found.v]],
                                          StoredRefs(heap) \cup {ArgAddr} \cup ValRefs(tag_value))
                             ELSE lists
    /\ UNCHANGED <<heap, taglog, ctags, serial, fs, handle>>

\* The deep copy of a dict of tags of which at most one is a list: the copy
\* of the list is at the address a.
CopyTags(tags, a) == [k \in DOMAIN tags |-> DeepCopy(tags[k], a)]
CopyLists(L, tags, a, used) ==
    LET K == {k \in DOMAIN tags : tags[k].t = "list"}
    IN  IF K = {} THEN L
        ELSE Collect([L EXCEPT ![a] = L[tags[CHOOSE k \in K : TRUE].v]],
                     used \cup DictRefs(CopyTags(tags, a)))

GetTagsCallStoresBug(i) ==
    /\ Live(i)
    /\ heap' = [heap EXCEPT ![i].dict = SetTagsDict(@, GetClassTags(ctags, heap[i].cls))]
    /\ last' = CallLookup("get_tags", i, "", PyNone, Omitted, "dict",
                           PyDict(GetTags(ctags, heap[i])))
    /\ UNCHANGED <<taglog, store>>

\* get_tags() on the object in slot i: the dict it returns is in last.val.
GetTagsCall(i) ==
    /\ Live(i)
    /\ LET used == StoredRefs(heap) \cup {ArgAddr}
           collected_tags == GetTags(ctags, heap[i])
       IN  /\ last' = CallLookup("get_tags", i, "", PyNone, Omitted, "dict",
                                  PyDict(CopyTags(collected_tags, Fresh(used))))
           /\ lists' = CopyLists(lists, collected_tags, Fresh(used), used)
    /\ UNCHANGED <<heap, taglog, ctags, serial, fs, handle>>

\* type(heap[i]).get_class_tags()
GetClassTagsCall(i) ==
    /\ Live(i)
    /\ LET used == StoredRefs(heap) \cup {ArgAddr}
           collected_tags == GetClassTags(ctags, heap[i].cls)
       IN  /\ last' = CallLookup("get_class_tags", i, "", PyNone, Omitted, "dict",
                                  PyDict(CopyTags(collected_tags, Fresh(used))))
           /\ lists' = CopyLists(lists, collected_tags, Fresh(used), used)
    /\ UNCHANGED <<heap, taglog, ctags, serial, fs, handle>>

\* x[0] = v, for the list x at the address a: the list the caller passed to
\* set_tags (who = "arg") or a list of the value returned last (who = "ret").
MutateList(who, a, v) ==
    /\ lists[a].alloc
    /\ \/ who = "arg" /\ a = ArgAddr
       \/ who = "ret" /\ a \in ValRefs(last.val)
    /\ lists' = [lists EXCEPT ![a].items = <<v>> \o Tail(@)]
    /\ last' = [last EXCEPT !.op = "setitem", !.name = who]
    /\ UNCHANGED <<heap, taglog, ctags, serial, fs, handle>>

\* A returned dict of tags gets the key k, or a new value for it.
MutateDict(k, v) ==
    /\ last.val.t = "dict" /\ last.ret = "dict"
    /\ last' = [last EXCEPT !.op = "setitem", !.name = "ret", !.val = PyDict(DictUpdate(@.v, (k :> v)))]
    /\ UNCHANGED <<heap, taglog, store>>

\* The queries on the estimator in slot 1, in every state set_params,
\* set_tags and fit bring it to.
NextQueries ==
    \/ \E v \in RVals : SetParams(1, "r", v)
    \/ SetTags(1, "capability:missing_values", PyBool(TRUE))
    \/ \E ok \in BOOLEAN, written \in FitWrites : Fit(1, ok, written)
    \/ \E deep \in BOOLEAN : GetFittedParamsCall(1, deep)
    \/ GetTagsCall(1)
    \/ \E name \in {"capability:missing_values", "no:tag"} : GetTagCall(1, name, Omitted, Omitted)
    \/ GetClassTagsCall(1)
    \/ IsCompositeCall(1)
    \/ ComponentsCall(1, "None")
    \/ CheckIsFitted(1)
    \/ SaveSerial(1)

SpecQueries == InitTags /\ [][NextQueries]_vars

-----------------------------------------------------------------------------
(* Test instances: create_test_instances_and_names.                        *)

\* Length of the longest list get_test_params returns.
MaxParams == 2

\* str(i) of an index.
Str(i) == <<"0", "1", "2", "3", "4", "5", "6", "7", "8", "9">>[i + 1]

\* The value of a list display and of a tuple display.
PyListOf(items) == [t |-> "list", v |-> items]
PyTuple(items) == [t |-> "tuple", v |-> items]

\* cls(**params): an unexpected keyword argument is a TypeError; the
\* arguments left out take their defaults.
CtorRaises(cls, params) == ~(DOMAIN params \subseteq InitParams(cls))
Construct(cls, params) == New(cls, DictUpdate(InitDefaults(cls), params))

ShapeError(cls) ==
    "Error in " \o cls \o ".get_test_params, return must be param dict for class, or list thereof"
UnexpectedKeyword(cls) == cls \o ".__init__() got an unexpected keyword argument"

\* The loop over param_list, from its k-th element on: every element is
\* tested and constructed in its turn.
RECURSIVE CreateObjs(_, _, _)
CreateObjs(cls, param_list, k) ==
    IF k > Len(param_list) THEN [ret |-> "tuple", msg |-> "", objs |-> <<>>]
    ELSE IF param_list[k].t # "dict"
    THEN [ret |-> "RuntimeError", msg |-> ShapeError(cls), objs |-> <<>>]
    ELSE IF CtorRaises(cls, param_list[k].v)
    THEN [ret |-> "TypeError", msg |-> UnexpectedKeyword(cls), objs |-> <<>>]
    ELSE LET rest == CreateObjs(cls, param_list, k + 1)
         IN  IF rest.ret = "tuple"
             THEN [rest EXCEPT !.objs = <<Construct(cls, param_list[k].v)>> \o @]
             ELSE rest

\* names, for n_cases = len(param_list).
TestNames(cls, n_cases) ==
    IF n_cases > 1 THEN [i \in 1..n_cases |-> cls \o "-" \o Str(i - 1)] ELSE <<cls>>

\* Without the test of the shape, an int reaches the for statement.
CreateTestInstancesAndNamesNoShapeBug(cls, params) ==
    IF params.t \notin {"dict", "list"}
    THEN [ret |-> "TypeError", val |-> PyStr("object is not iterable")]
    ELSE LET param_list == IF params.t = "dict" THEN <<params>> ELSE params.v
             r == CreateObjs(cls, param_list, 1)
         IN  IF r.ret = "tuple"
             THEN [ret |-> "tuple",
                   val |-> PyTuple(<<r.objs, TestNames(cls, Len(param_list))>>)]
             ELSE [ret |-> r.ret, val |-> PyStr(r.msg)]

\* cls.create_test_instances_and_names(), get_test_params returning params:
\* (objs, names), or the exception raised and its message.
CreateTestInstancesAndNames(cls, params) ==
    IF params.t \notin {"dict", "list"}
    THEN [ret |-> "RuntimeError", val |-> PyStr(ShapeError(cls))]
    ELSE LET param_list == IF params.t = "dict" THEN <<params>> ELSE params.v
             r == CreateObjs(cls, param_list, 1)
         IN  IF r.ret = "tuple"
             THEN [ret |-> "tuple",
                   val |-> PyTuple(<<r.objs, TestNames(cls, Len(param_list))>>)]
             ELSE [ret |-> r.ret, val |-> PyStr(r.msg)]

CreateTestInstancesAndNamesCall(cls, params) ==
    /\ Live(1)
    /\ LET r == CreateTestInstancesAndNames(cls, params)
       IN  last' = [CallLookup("create_test_instances_and_names", 1, cls, PyNone, Omitted,
                               r.ret, r.val) EXCEPT !.arg = params]
    /\ UNCHANGED <<heap, taglog, store>>

\* What get_test_params of cls may return: parameter dicts (one of them with
\* a key that is no argument of __init__), lists of at most MaxParams
\* elements, and values of other types.
TestDicts(cls) ==
    {PyDict(EmptyDict), PyDict([bad |-> PyInt(1)])}
    \cup {PyDict(a) : a \in CtorArgs(cls)}
    \cup (IF cls = Enc THEN {PyDict([n_epochs |-> PyInt(1)])} ELSE {})
TestElems(cls) == TestDicts(cls) \cup {PyInt(1), PyNone}
TestParamReturns(cls) ==
    TestDicts(cls) \cup {PyInt(1), PyNone}
    \cup {PyListOf(items) : items \in UNION {[1..n -> TestElems(cls)] : n \in 0..MaxParams}}
TestClasses == {DFA, Enc, Base}

NextTestInstances ==
    \E cls \in TestClasses : \E params \in TestParamReturns(cls) :
        CreateTestInstancesAndNamesCall(cls, params)

SpecTestInstances == InitTags /\ [][NextTestInstances]_vars

-----------------------------------------------------------------------------
(* Collections: aeon/utils/validation/collection.py.                       *)

\* Largest ndim of an array, largest number of levels of an index, of
\* columns of a DataFrame and of elements of a list.
MaxDim == 4
MaxLevels == 3
MaxCols == 2
MaxItems == 2

\* np.ndarray, by its ndim; pd.DataFrame, by whether its index is a
\* MultiIndex, the number of levels of the index and the dtypes of the columns.
NdArray(ndim) == [t |-> "ndarray", ndim |-> ndim]
DataFrame(multi, nlevels, dtypes) ==
    [t |-> "DataFrame", multi |-> multi, nlevels |-> nlevels, dtypes |-> dtypes]

\* A value returned, or the exception raised.
Returns(type, v) == [ret |-> type, val |-> v]
Raises(exc) == [ret |-> exc, val |-> PyNone]

\* _is_pd_wide(X): a DataFrame without MultiIndex whose columns are all of a
\* floating dtype.
IsPdWide(X) ==
    /\ X.t = "DataFrame" /\ ~X.multi
    /\ \A col \in 1..Len(X.dtypes) : X.dtypes[col] = "float"

\* is_collection(X, include_2d)
IsCollection(X, include_2d) ==
    IF X.t = "ndarray" /\ (X.ndim = 3 \/ (include_2d /\ X.ndim = 2))
    THEN Returns("bool", PyBool(TRUE))
    ELSE IF X.t = "DataFrame" /\ (X.nlevels = 2 \/ (include_2d /\ IsPdWide(X)))
    THEN Returns("bool", PyBool(TRUE))
    ELSE IF X.t = "list"
    THEN IF Len(X.v) = 0 THEN Raises("IndexError")
         ELSE IF X.v[1].t = "ndarray" /\ X.v[1].ndim = 2 THEN Returns("bool", PyBool(TRUE))
         ELSE IF X.v[1].t = "DataFrame" THEN Returns("bool", PyBool(TRUE))
         ELSE Returns("bool", PyBool(FALSE))
    ELSE Returns("bool", PyBool(FALSE))

\* The exception of the first element of the list X that is no 2D array:
\* the message is formatted with a.ndim, which an int does not have.
NpListError(X) ==
    LET bad == {k \in 1..Len(X) : ~(X[k].t = "ndarray" /\ X[k].ndim = 2)}
        a == X[CHOOSE k \in bad : \A j \in bad : k <= j]
    IN  IF a.t \in {"ndarray", "DataFrame"} THEN Raises("TypeError") ELSE Raises("AttributeError")

\* get_type(X)
GetType(X) ==
    IF X.t = "ndarray"
    THEN IF X.ndim = 3 THEN Returns("str", PyStr("numpy3D"))
         ELSE IF X.ndim = 2 THEN Returns("str", PyStr("numpy2D"))
         ELSE Raises("ValueError")
    ELSE IF X.t = "list"
    THEN IF Len(X.v) = 0 THEN Raises("IndexError")
         ELSE IF X.v[1].t = "ndarray"
         THEN IF \A k \in 1..Len(X.v) : X.v[k].t = "ndarray" /\ X.v[k].ndim = 2
              THEN Returns("str", PyStr("np-list"))
              ELSE NpListError(X.v)
         ELSE IF X.v[1].t = "DataFrame"
         THEN IF \A k \in 1..Len(X.v) : X.v[k].t = "DataFrame"
              THEN Returns("str", PyStr("df-list"))
              ELSE Raises("TypeError")
         ELSE Raises("TypeError")
    ELSE IF X.t = "DataFrame"
    THEN IF X.multi THEN Returns("str", PyStr("pd-multiindex"))
         ELSE IF IsPdWide(X) THEN Returns("str", PyStr("pd-wide"))
         ELSE Raises("TypeError")
    ELSE Raises("TypeError")

\* The inputs: arrays, DataFrames with a plain index (one level) or with a
\* MultiIndex, lists of arrays, DataFrames and ints, and values of other types.
Dtypes == {"float", "int", "object"}
DataFrames ==
    {DataFrame(multi, nlevels, dtypes) :
        multi \in BOOLEAN, nlevels \in 1..MaxLevels,
        dtypes \in UNION {[1..n -> Dtypes] : n \in 0..MaxCols}}
PlainOrMulti == {X \in DataFrames : X.multi \/ X.nlevels = 1}
ListElems ==
    {NdArray(1), NdArray(2), PyInt(1),
     DataFrame(FALSE, 1, <<"float">>), DataFrame(TRUE, 2, <<"float">>)}
CollectionInputs ==
    {NdArray(ndim) : ndim \in 0..MaxDim}
    \cup PlainOrMulti
    \cup {PyListOf(items) : items \in UNION {[1..n -> ListElems] : n \in 0..MaxItems}}
    \cup {PyInt(1), PyNone, PyStr("x")}

GetTypeCall(X) ==
    /\ Live(1)
    /\ LET r == GetType(X)
       IN  last' = [CallLookup("get_type", 1, "", PyNone, Omitted, r.ret, r.val)
                       EXCEPT !.arg = X]
    /\ UNCHANGED <<heap, taglog, store>>

IsCollectionCall(X, include_2d) ==
    /\ Live(1)
    /\ LET r == IsCollection(X, include_2d)
       IN  last' = [CallLookup("is_collection", 1, "", PyNone, PyBool(include_2d), r.ret, r.val)
                       EXCEPT !.arg = X]
    /\ UNCHANGED <<heap, taglog, store>>

NextCollection ==
    \/ \E X \in CollectionInputs : GetTypeCall(X)
    \/ \E X \in CollectionInputs, include_2d \in BOOLEAN : IsCollectionCall(X, include_2d)

SpecCollection == InitTags /\ [][NextCollection]_vars

-----------------------------------------------------------------------------
(* DiscreteFourierApproximation._transform.  np.fft.fft and np.fft.ifft    *)
(* keep the shape; the series is given by the amplitudes abs(dft) of its   *)
(* Fourier terms, one row per channel, and the result by the amplitudes of *)
(* dft * mask.                                                             *)

\* Largest n_timepoints; the series have one channel or two.
MaxTimepoints == 3
NChannels == 2

Amplitudes == {1, 2}
Max(a, b) == IF a >= b THEN a ELSE b

\* keep = max(int(self.r * dft.shape[1]), 1), r in tenths.
KeepFloorBug(r, n_timepoints) == (r.v * n_timepoints) \div 10
Keep(r, n_timepoints) == Max((r.v * n_timepoints) \div 10, 1)

\* np.argsort(row)[::-1]: the orders of the indices in which the amplitudes
\* do not increase; equal amplitudes come in any order.
Perms(n) == {p \in [1..n -> 1..n] : \A i, j \in 1..n : i # j => p[i] # p[j]}
ArgSortReversed(row) ==
    {p \in Perms(Len(row)) : \A i \in 1..(Len(row) - 1) : row[p[i]] >= row[p[i + 1]]}

\* np.argsort(np.abs(dft))[:, ::-1]: one such order for every channel.
RECURSIVE SortedIndices(_)
SortedIndices(dft) ==
    IF dft = <<>> THEN {<<>>}
    ELSE {<<p>> \o rest : p \in ArgSortReversed(Head(dft)), rest \in SortedIndices(Tail(dft))}

\* The mask of one channel.
MaskRow(sort, keep, n_timepoints, sorted_indices) ==
    [k \in 1..n_timepoints |->
        IF sort THEN \E j \in 1..keep : sorted_indices[j] = k ELSE k <= keep]

\* abs(dft * mask) for the choice sorted_indices of argsort, one per channel.
Transform(o, dft, sorted_indices) ==
    LET n_timepoints == Len(dft[1])
        keep == Keep(o.dict["r"], n_timepoints)
        mask == [i \in 1..Len(dft) |->
                    MaskRow(o.dict["sort"].v, keep, n_timepoints,
                            IF o.dict["sort"].v THEN sorted_indices[i] ELSE <<>>)]
    IN  [i \in 1..Len(dft) |-> [k \in 1..n_timepoints |-> IF mask[i][k] THEN dft[i][k] ELSE 0]]

\* heap[i]._transform(X): last.arg is abs(fft(X)), last.val the result.
TransformCall(i, dft) ==
    /\ Live(i) /\ heap[i].cls = DFA
    /\ \E sorted_indices \in IF heap[i].dict["sort"].v THEN SortedIndices(dft) ELSE {<<>>} :
          /\ last' = [CallLookup("_transform", i, "", PyNone, Omitted, "ndarray",
                                  [t |-> "ndarray", v |-> Transform(heap[i], dft, sorted_indices)])
                          EXCEPT !.arg = [t |-> "ndarray", v |-> dft]]
    /\ UNCHANGED <<heap, taglog, store>>

\* The series of n_channels rows of n_timepoints amplitudes, and the values
\* of r in [0, 1].
SeriesInputs ==
    UNION {[1..c -> [1..n -> Amplitudes]] : c \in 1..NChannels, n \in 1..MaxTimepoints}
Proportions == {PyFloat(0), PyFloat(3), PyFloat(5), PyFloat(10)}

InitTransform ==
    /\ \E r \in Proportions, sort \in BOOLEAN :
          heap = [i \in Oids |-> IF i = 1 THEN New(DFA, [r |-> r, sort |-> PyBool(sort)])
                                 ELSE NoObj]
    /\ ctags = ClassTagsInit
    /\ taglog = [i \in Oids |-> NoLog]
    /\ last = Call("init", 1, 1, KeepNone, "None")
    /\ serial = NoSerial
    /\ fs = EmptyDict
    /\ handle = PyNone
    /\ lists = [a \in Addrs |-> NoList]

NextTransform == \E dft \in SeriesInputs : last.op = "init" /\ TransformCall(1, dft)

SpecTransform == InitTransform /\ [][NextTransform]_vars

-----------------------------------------------------------------------------
(* EncoderRegressor._fit: the checkpoint of the best model.                *)

\* Number of files the model lets accumulate.
MaxFiles == 2

\* The defaults of file_path and best_file_name.
FilePath == "./"
BestFileName == "best_model"

\* str(time.time_ns()): a name no file has yet.
TimeNs(files) == "t" \o Str(Cardinality(DOMAIN files))

\* A keras model: its identity and its weights.
KerasModel(id, weights) == [t |-> "Model", v |-> id, weights |-> weights]

\* deepcopy(training_model_): another object with the same weights.
DeepCopyModelSameBug(model) == model
DeepCopyModel(model) == [model EXCEPT !.v = "copy"]

\* What training leaves at the path of the checkpoint: the best model, no
\* file, or a file load_model cannot read; and the file found there by
\* load_model.
CheckpointOutcomes == {"saved", "none", "unreadable"}
AfterTraining(files, path, checkpoint) ==
    IF checkpoint = "saved" THEN DictUpdate(files, (path :> [kind |-> "keras", weights |-> "best"]))
    ELSE IF checkpoint = "unreadable"
    THEN DictUpdate(files, (path :> [kind |-> "unreadable", weights |-> ""]))
    ELSE files
FileAtLoad(files, path) ==
    IF path \notin DOMAIN files THEN "missing"
    ELSE IF files[path].kind = "keras" THEN "loadable" ELSE "unreadable"

\* heap[i]._fit(X, y): load_model raises FileNotFoundError for a missing file
\* and another exception for a file it cannot read.
EncoderFit(i, checkpoint) ==
    /\ Live(i) /\ heap[i].cls = Enc /\ Cardinality(DOMAIN fs) < MaxFiles
    /\ LET o == heap[i]
           training_model_ == KerasModel("training", "last")
           file_name_ == IF o.dict["save_best_model"].v THEN BestFileName ELSE TimeNs(fs)
           path == FilePath \o file_name_ \o ".keras"
           trained == DictUpdate(o.dict, [training_model_ |-> training_model_,
                                          file_name_ |-> PyStr(file_name_),
                                          history |-> PyStr("History")])
           files == AfterTraining(fs, path, checkpoint)
           found == FileAtLoad(files, path)
       IN  /\ heap' = [heap EXCEPT ![i].dict =
                 IF found = "loadable"
                 THEN DictUpdate(trained, [model_ |-> KerasModel("loaded", files[path].weights)])
                 ELSE IF found = "missing"
                 THEN DictUpdate(trained, [model_ |-> DeepCopyModel(training_model_)])
                 ELSE trained]
           /\ fs' = IF found = "loadable" /\ ~o.dict["save_best_model"].v
                    THEN DictDel(files, {path}) ELSE files
           /\ last' = [Call("_fit", i, i, KeepNone,
                             IF found = "unreadable" THEN "Exception" ELSE "self")
                           EXCEPT !.arg = PyStr(found)]
    /\ UNCHANGED <<taglog, ctags, serial, handle, lists>>

InitEncoder ==
    /\ heap = [i \in Oids |-> IF i = 1 THEN New(Enc, InitDefaults(Enc)) ELSE NoObj]
    /\ ctags = ClassTagsInit
    /\ taglog = [i \in Oids |-> NoLog]
    /\ last = Call("init", 1, 1, KeepNone, "None")
    /\ serial = NoSerial
    /\ fs = EmptyDict
    /\ handle = PyNone
    /\ lists = [a \in Addrs |-> NoList]

NextEncoder ==
    \/ \E b \in BOOLEAN : SetParams(1, "save_best_model", PyBool(b))
    \/ \E n \in {1, 100} : SetParams(1, "n_epochs", PyInt(n))
    \/ \E checkpoint \in CheckpointOutcomes : EncoderFit(1, checkpoint)

SpecEncoder == InitEncoder /\ [][NextEncoder]_vars

\* The tags of the estimator in slot 1, with a list as the value of a tag:
\* the caller holds the list at ArgAddr, and changes it and the values
\* returned to them.
InitCopies ==
    /\ heap = [i \in Oids |-> IF i = 1 THEN New(DFA, InitDefaults(DFA)) ELSE NoObj]
    /\ lists = [a \in Addrs |-> IF a = ArgAddr THEN ListOf(<<5>>) ELSE NoList]
    /\ ctags = ClassTagsInit
    /\ taglog = [i \in Oids |-> NoLog]
    /\ last = Call("init", 1, 1, KeepNone, "None")
    /\ serial = NoSerial
    /\ fs = EmptyDict
    /\ handle = PyNone

NextCopies ==
    \/ \E v \in {PyList(ArgAddr), PyStr("np.ndarray")} : SetTags(1, "X_inner_type", v)
    \/ GetTagsCall(1)
    \/ GetClassTagsCall(1)
    \/ GetTagCall(1, "X_inner_type", Omitted, Omitted)
    \/ \E who \in {"arg", "ret"}, a \in Addrs, v \in KernelSizes : MutateList(who, a, v)
    \/ MutateDict("fit_is_empty", PyBool(FALSE))
    \/ Reset(1, KeepNone)

SpecCopies == InitCopies /\ [][NextCopies]_vars

\* type(heap[i]).get_class_tag(name, default, flag)
GetClassTagCall(i, name, default, flag) ==
    /\ Live(i)
    /\ LET tag_value_default == IF default = Omitted THEN PyNone ELSE default
           raise_error == RaiseError(flag, GetClassTagRaiseErrorDefault)
       IN  last' = IF GetClassTagRaises(ctags, heap[i].cls, name, raise_error)
                   THEN CallLookup("get_class_tag", i, name, default, flag,
                                   TagNotFound(name), PyNone)
                   ELSE CallLookup("get_class_tag", i, name, default, flag, "value",
                                   GetClassTag(ctags, heap[i].cls, name, tag_value_default))
    /\ UNCHANGED <<heap, taglog, store>>

\* The arguments of the lookups: a tag of the class with the value None, a tag
\* of the class that set_tags overrides, a tag two classes of the chain have, a
\* tag only set_tags makes, and a tag nothing has.
LookupNames ==
    {"python_version", "capability:missing_values", "capability:multivariate", "custom:tag",
     "no:tag"}
LookupDefaults == {Omitted, PyStr("fallback")}
LookupFlags == {Omitted, PyBool(TRUE), PyBool(FALSE)}

\* Tag lookups on the estimator in slot 1, between set_tags and reset.
NextLookup ==
    \/ \E v \in TagArgVals : SetTags(1, "capability:missing_values", v)
    \/ SetTags(1, "custom:tag", PyBool(TRUE))
    \/ Reset(1, KeepNone)
    \/ \E name \in LookupNames, default \in LookupDefaults, flag \in LookupFlags :
            GetTagCall(1, name, default, flag)
    \/ \E name \in LookupNames, default \in LookupDefaults, flag \in LookupFlags :
            GetClassTagCall(1, name, default, flag)

SpecLookup == InitTags /\ [][NextLookup]_vars

-----------------------------------------------------------------------------
(* Properties of the lifecycle.                                            *)

\* C1: clone() returns a new object whose get_params() equals that of the
\* original and whose fitted flag is false, whatever the state of the original.
C1_CloneParamsUnfitted ==
    last.op = "clone" =>
        /\ last.dst # last.obj
        /\ Live(last.dst)
        /\ GetParams(heap[last.dst]) = GetParams(heap[last.obj])
        /\ ~IsFitted(heap[last.dst])

\* A clone has been taken of a fitted estimator with non-default
\* hyper-parameters and a dynamic tag.
C1_Witness ==
    /\ last.op = "clone"
    /\ IsFitted(heap[last.obj])
    /\ GetParams(heap[last.obj]) # InitDefaults(DFA)
    /\ DOMAIN heap[last.obj].dict["_tags_dynamic"].v # {}

\* C2: a reset leaves get_params() as it was immediately before the reset and
\* the fitted flag false.
C2_ResetKeepsParams ==
    [][(last'.op = "reset" /\ last'.ret = "self") =>
        /\ GetParams(heap'[last'.obj]) = GetParams(heap[last'.obj])
        /\ ~IsFitted(heap'[last'.obj])]_vars

\* reset() has run on a fitted estimator whose hyper-parameters differ from
\* the defaults.
C2_Witness ==
    /\ last.op = "reset" /\ last.ret = "self" /\ last.keep = KeepNone
    /\ last.fitted0
    /\ \A p \in InitParams(DFA) : heap[last.obj].dict[p] # InitDefaults(DFA)[p]

\* The attribute k of the object with __dict__ d has the same value (or is
\* as absent) in the object with __dict__ e.
SameAttr(d, e, k) == (k \in DOMAIN d <=> k \in DOMAIN e) /\ (k \in DOMAIN d => d[k] = e[k])

\* C3: every attribute named in keep has the same value after reset(keep) as
\* before it.
C3_KeepSurvives ==
    [][(last'.op = "reset" /\ last'.ret = "self") =>
        \A k \in Range(last'.keep.names) :
            SameAttr(heap[last'.obj].dict, heap'[last'.obj].dict, k)]_vars

\* keep is None, a string or a list of strings.
ValidKeep(keep) == keep.kind \in {"None", "str"} \/ (keep.kind = "list" /\ keep.other = <<>>)

\* C12, as stated: reset(keep) raises TypeError for every keep that is not
\* None, a string or a list of strings, and then changes nothing.
C12_InvalidKeepTypeError ==
    [][(last'.op = "reset" /\ ~ValidKeep(last'.keep)) =>
            (last'.ret = "TypeError" /\ heap' = heap /\ ctags' = ctags)]_vars

\* C13: after reset() the estimator equals type(self)(**get_params(deep=False))
\* in every attribute without "__" in its name: those the constructor does not
\* set are gone, however they were made.
C13_ResetEqualsFresh ==
    [][(last'.op = "reset" /\ last'.ret = "self" /\ last'.keep = KeepNone) =>
        LET fresh == New(heap[last'.obj].cls, GetParams(heap[last'.obj]))
            after == heap'[last'.obj].dict
        IN  /\ DOMAIN fresh.dict \subseteq DOMAIN after
            /\ \A a \in DOMAIN after :
                    ~Contains(a, "__") => (a \in DOMAIN fresh.dict /\ after[a] = fresh.dict[a])]_vars

\* The value of a parameter: of a list, its items in the store L.
Deref(x, L) == IF x.t = "list" THEN [t |-> "list", v |-> L[x.v].items] ELSE x

\* What can be seen of the object o: the values of its hyper-parameters, its
\* tags, its fitted attributes and its fitted flag.
Observe(o, L) ==
    [params |-> [p \in InitParams(o.cls) |-> Deref(o.dict[p], L)],
     tags |-> GetTags(ctags, o),
     fitted_params |-> GetFittedParamsDefault(o),
     is_fitted |-> IsFitted(o)]

Queries == {"check_is_fitted", "get_fitted_params", "get_fitted_params_shallow"}

\* C9: check_is_fitted and get_fitted_params raise NotFittedError exactly when
\* the fitted flag is false, and leave the estimator as it was when they raise.
C9_NotFittedExactly ==
    [][last'.op \in Queries =>
        /\ last'.ret = "NotFittedError" <=> ~IsFitted(heap[last'.obj])
        /\ last'.ret = "NotFittedError" => (heap' = heap /\ ctags' = ctags)]_vars

\* get_fitted_params has raised on the clone of a fitted estimator.
C9_Witness ==
    /\ last.op = "get_fitted_params" /\ last.ret = "NotFittedError"
    /\ last.obj # 1
    /\ IsFitted(heap[1])

-----------------------------------------------------------------------------
(* Properties of the tags.                                                 *)

\* The keys of get_tags() include those of get_class_tags(), and get_tag(x)
\* is log[x] for every tag name x of the log of set_tags calls.
TagsFollow(i, log) ==
    /\ DOMAIN GetClassTags(ctags, heap[i].cls) \subseteq DOMAIN GetTags(ctags, heap[i])
    /\ \A x \in DOMAIN log :
        /\ ~GetTagRaises(ctags, heap[i], x, TRUE)
        /\ GetTag(ctags, heap[i], x, PyNone) = log[x]

\* C4, as stated: in every reachable state get_tags() has every key of
\* get_class_tags(), and get_tag(x) is the value of the most recent
\* set_tags call for x, for every x ever passed to set_tags.
C4_TagsFollowEver == \A i \in Oids : Live(i) => TagsFollow(i, taglog[i].ever)

\* C4, amended: the same for every x passed to set_tags since the object was
\* constructed or last reset.
C4_TagsFollowSinceInit == \A i \in Oids : Live(i) => TagsFollow(i, taglog[i].cur)

\* A class-level tag has been set to True, against the class value False, and
\* a tag the class does not have has been set as well.
C4_Witness ==
    /\ last.op = "set_tags"
    /\ GetClassTag(ctags, heap[1].cls, "capability:missing_values", PyNone) = PyBool(FALSE)
    /\ DOMAIN taglog[1].cur = TagArgNames
    /\ taglog[1].cur["capability:missing_values"] = PyBool(TRUE)

\* C5: set_tags on an instance changes neither the class-level tags nor the
\* tags of the other instances of the class.
C5_SetTagsLeavesClass ==
    [][last'.op = "set_tags" =>
        /\ \A c \in {DFA, Series, Base} : GetClassTags(ctags', c) = GetClassTags(ctags, c)
        /\ \A c \in {DFA, Series, Base} : \A x \in TagArgNames :
            GetClassTag(ctags', c, x, PyNone) = GetClassTag(ctags, c, x, PyNone)
        /\ \A j \in Oids \ {last'.obj} : heap'[j] = heap[j]
        /\ \A j \in Oids \ {last'.obj} :
            Live(j) => GetTags(ctags', heap'[j]) = GetTags(ctags, heap[j])]_vars

\* set_tags has overridden a class-level tag on one of two instances: the two
\* instances now differ in it and the class still has its own value.
C5_Witness ==
    /\ last.op = "set_tags"
    /\ \A j \in Oids : Live(j)
    /\ \E j \in Oids \ {last.obj} :
        GetTag(ctags, heap[j], "capability:missing_values", PyNone)
            # GetTag(ctags, heap[last.obj], "capability:missing_values", PyNone)
    /\ GetClassTag(ctags, DFA, "capability:missing_values", PyNone) = PyBool(FALSE)

\* The outcome of the lookup l (a call record), against the merged tags it
\* was made on.
LookupIn(l, tags) ==
    LET flag == RaiseError(l.flag, IF l.op = "get_tag" THEN GetTagRaiseErrorDefault
                                                       ELSE GetClassTagRaiseErrorDefault)
    IN  IF l.name \in DOMAIN tags
        THEN l.ret = "value" /\ l.val = tags[l.name]
        ELSE IF flag
             THEN /\ l.ret # "value"
                  /\ StartsWith(l.ret, "ValueError") /\ Contains(l.ret, l.name)
             ELSE l.ret = "value" /\ l.val = (IF l.default = Omitted THEN PyNone ELSE l.default)

\* C11: a lookup of an absent tag raises an error naming the key when
\* raise_error is true (the default of get_tag) and returns the default when it
\* is false (the default of get_class_tag); a lookup of a present tag returns
\* its value; no lookup changes the estimator or the class tags.
C11_LookupMissing ==
    [][/\ last'.op = "get_tag" =>
            /\ LookupIn(last', GetTags(ctags, heap[last'.obj]))
            /\ (last'.flag = Omitted /\ last'.name \notin DOMAIN GetTags(ctags, heap[last'.obj]))
                    => last'.ret # "value"
       /\ last'.op = "get_class_tag" =>
            /\ LookupIn(last', GetClassTags(ctags, heap[last'.obj].cls))
            /\ last'.flag = Omitted => last'.ret = "value"
       /\ last'.op \in {"get_tag", "get_class_tag"} => (heap' = heap /\ ctags' = ctags)]_vars

\* get_tag, called without a raise_error, has raised for a tag that set_tags
\* made and a reset removed.
C11_Witness ==
    /\ last.op = "get_tag" /\ last.flag = Omitted /\ last.name = "custom:tag"
    /\ last.ret = TagNotFound("custom:tag")
    /\ "custom:tag" \in DOMAIN taglog[1].ever

\* The classes, and the classes of the chain of cls that have the tag k in a
\* _tags of their own, by their places in the chain.
Classes == {DFA, Enc, Series, Base}
Definers(cls, k) ==
    {n \in DOMAIN Mro(cls) : Mro(cls)[n] \in DOMAIN ctags /\ k \in DOMAIN ctags[Mro(cls)[n]]}
MostSpecific(cls, k) == CHOOSE n \in Definers(cls, k) : \A j \in Definers(cls, k) : n <= j

TagValues(tags, L) == [k \in DOMAIN tags |-> Deref(tags[k], L)]

\* C16: get_tags() and get_class_tags() return copies and set_tags stores a
\* copy: the value returned equals the tags and shares no list with them, the
\* value stored equals the argument and is not the list of the caller, and a
\* change made to a returned value or to the list of the caller changes the
\* result of no later get_tags(), get_tag() or get_class_tags().
C16_DefensiveCopies ==
    [][/\ last'.op = "setitem" =>
            /\ \A i \in Oids : Live(i) =>
                    TagValues(GetTags(ctags', heap'[i]), lists') = TagValues(GetTags(ctags, heap[i]), lists)
            /\ \A c \in Classes :
                    TagValues(GetClassTags(ctags', c), lists') = TagValues(GetClassTags(ctags, c), lists)
       /\ last'.op \in {"get_tags", "get_class_tags", "get_tag"} =>
            /\ ValRefs(last'.val) \cap (StoredRefs(heap') \cup {ArgAddr}) = {}
            /\ last'.op = "get_tags" =>
                    TagValues(last'.val.v, lists') = TagValues(GetTags(ctags, heap[last'.obj]), lists)
            /\ last'.op = "get_class_tags" =>
                    TagValues(last'.val.v, lists') = TagValues(GetClassTags(ctags, heap[last'.obj].cls), lists)
            /\ (last'.op = "get_tag" /\ last'.ret = "value"
                    /\ last'.name \in DOMAIN GetTags(ctags, heap[last'.obj])) =>
                    Deref(last'.val, lists') = Deref(GetTags(ctags, heap[last'.obj])[last'.name], lists)
       /\ (last'.op = "set_tags" /\ DictRefs(taglog'[last'.obj].cur) # {}) =>
            /\ ArgAddr \notin StoredRefs(heap')
            /\ \A k \in DOMAIN taglog'[last'.obj].cur :
                    Deref(GetTags(ctags', heap'[last'.obj])[k], lists')
                        = Deref(taglog'[last'.obj].cur[k], lists)]_vars

\* The list passed to set_tags and the list in the dict get_tags() returned
\* have both been changed since; the tag still has the value passed.
C16_Witness ==
    /\ last.op = "setitem" /\ last.name = "ret" /\ last.val.t = "dict"
    /\ "X_inner_type" \in DOMAIN heap[1].dict["_tags_dynamic"].v
    /\ heap[1].dict["_tags_dynamic"].v["X_inner_type"].t = "list"
    /\ Deref(heap[1].dict["_tags_dynamic"].v["X_inner_type"], lists).v = <<5>>
    /\ lists[ArgAddr].items = <<11>>
    /\ Deref(last.val.v["X_inner_type"], lists).v = <<11>>

\* The instance attributes of o that are not hyper-parameters, have no "__" in
\* their names and hold instances of base_class.
ComponentCandidates(o, base_class) ==
    {a \in DOMAIN o.dict \ InitParams(o.cls) :
        ~Contains(a, "__")
        /\ IsInstance(heap, o.dict[a], IF base_class = "None" THEN Base ELSE base_class)}

\* C17, as stated: _components(base_class) has exactly the instance
\* attributes that are not hyper-parameters, have no "__" in their names and
\* hold instances of base_class, with the attribute values as its values.
C17_ComponentsExactly ==
    (last.op = "_components" /\ last.ret = "dict") =>
        /\ DOMAIN last.val.v = ComponentCandidates(heap[last.obj], last.name)
        /\ \A x \in DOMAIN last.val.v : last.val.v[x] = heap[last.obj].dict[x]

\* C17, amended: the same, of the instance attributes whose names are not
\* names of class attributes.
C17_ComponentsNotClassAttrs ==
    (last.op = "_components" /\ last.ret = "dict") =>
        /\ DOMAIN last.val.v
                = ComponentCandidates(heap[last.obj], last.name) \ ClassAttrs(heap[last.obj].cls)
        /\ \A x \in DOMAIN last.val.v : last.val.v[x] = heap[last.obj].dict[x]
        /\ last.name = "None" => last.val.v = Components(heap[last.obj])

\* _components() has returned one estimator while a hyper-parameter and an
\* attribute with "__" in its name hold estimators too, and the estimator it
\* returned is the object whose tags have been set through another reference.
C17_Witness ==
    /\ last.op = "_components" /\ last.ret = "dict"
    /\ DOMAIN last.val.v = {"comp_"}
    /\ heap[last.obj].dict["r"].t = "BaseEstimator"
    /\ "state__est" \in DOMAIN heap[last.obj].dict
    /\ heap[last.obj].dict["state__est"].t = "BaseEstimator"
    /\ DOMAIN heap[last.val.v["comp_"].v].dict["_tags_dynamic"].v # {}

-----------------------------------------------------------------------------
(* Properties of the serialization.                                        *)

\* The objects a and b have the same hyper-parameters, fitted attributes and
\* fitted flag.
SameEstimator(a, b) ==
    /\ a.cls = b.cls
    /\ GetParams(a) = GetParams(b)
    /\ IsFitted(a) = IsFitted(b)
    /\ GetFittedParamsDefault(a) = GetFittedParamsDefault(b)

C7_PathRoundTrip ==
    (last.op = "save" /\ last.path.t \in {"str", "Path"}) =>
        /\ last.ret = "ZipFile"
        /\ \E file \in {handle, PyStr(handle.v)} :
            /\ LoadFromPathValue(fs, file).ret = "estimator"
            /\ SameEstimator(LoadFromPathValue(fs, file).obj, heap[last.obj])

\* C18: save(path) with a path that is not None, a str or a Path raises
\* TypeError, and leaves the file system and the estimator as they were.
C18_SaveTypeError ==
    [][(last'.op = "save" /\ last'.path.t \notin {"NoneType", "str", "Path"}) =>
        /\ last'.ret = "TypeError"
        /\ fs' = fs /\ handle' = handle
        /\ heap' = heap /\ ctags' = ctags]_vars

\* save(1) has raised on a fitted estimator, after an archive of it was
\* written; there is no other file.
C18_Witness ==
    /\ last.op = "save" /\ last.path = PyInt(1) /\ last.ret = "TypeError"
    /\ IsFitted(heap[last.obj])
    /\ DOMAIN fs = {"model.zip"}

\* C19: a save(p) that returns has written the archive p.zip, with the
\* entries _metadata and _obj of the estimator and no other new file, the
\* directory p is gone, and the handle returned refers to that archive.
C19_HandleIsArchive ==
    [][(last'.op = "save" /\ last'.ret = "ZipFile") =>
        /\ DOMAIN fs' \ DOMAIN fs \subseteq {ArchiveName(last'.path.v)}
        /\ ArchiveName(last'.path.v) \in DOMAIN fs'
        /\ DOMAIN fs'[ArchiveName(last'.path.v)] = {"_metadata", "_obj"}
        /\ fs'[ArchiveName(last'.path.v)] = Archive(heap[last'.obj])
        /\ last'.path.v \notin DOMAIN fs'
        /\ handle' = [t |-> "ZipFile", v |-> ArchiveName(last'.path.v)]]_vars

-----------------------------------------------------------------------------
(* Properties of the queries.                                              *)

QueryOps ==
    {"get_fitted_params", "get_fitted_params_shallow", "get_tags", "get_tag", "get_class_tags",
     "is_composite", "_components", "check_is_fitted"}

\* C20: get_fitted_params, get_tags, get_tag, get_class_tags, is_composite,
\* _components, check_is_fitted and save(None) leave the hyper-parameters,
\* the dynamic tags, the fitted attributes and the fitted flag as they were.
C20_QueriesLeaveState ==
    [][(last'.op \in QueryOps \/ (last'.op = "save" /\ last'.path = PyNone)) =>
        /\ heap' = heap /\ ctags' = ctags /\ lists' = lists
        /\ Observe(heap'[last'.obj], lists') = Observe(heap[last'.obj], lists)]_vars

\* get_tags() has run on a fitted estimator with a changed hyper-parameter, a
\* dynamic tag and a fitted attribute.
C20_Witness ==
    /\ last.op = "get_tags"
    /\ IsFitted(heap[last.obj])
    /\ heap[last.obj].dict["r"] # InitDefaults(DFA)["r"]
    /\ DOMAIN heap[last.obj].dict["_tags_dynamic"].v # {}
    /\ DOMAIN GetFittedParamsDefault(heap[last.obj]) # {}

-----------------------------------------------------------------------------
(* Properties of the fitted parameters.                                    *)

\* The fitted sub-components of the estimator in slot i.
FittedComponents(i) ==
    {c \in DOMAIN Components(heap[i]) : IsFitted(heap[Components(heap[i])[c].v])}

ShallowKeys(i) == DOMAIN GetFittedParams(heap, heap[i], FALSE)
DeepKeys(i) == DOMAIN GetFittedParams(heap, heap[i], TRUE)

\* The keys componentname__paramname of the fitted sub-components of slot i.
ComponentKeys(i) ==
    UNION {DOMAIN Namespaced(c, GetFittedParams(heap, heap[Components(heap[i])[c].v], TRUE)) :
            c \in FittedComponents(i)}

\* C10, as stated: for a fitted estimator with a fitted sub-component the
\* shallow keys are a strict subset of the deep keys.
C10_ShallowStrictSubset ==
    \A i \in Oids :
        (IsFitted(heap[i]) /\ FittedComponents(i) # {}) =>
            (ShallowKeys(i) \subseteq DeepKeys(i) /\ ShallowKeys(i) # DeepKeys(i))

\* C10, amended: the shallow keys are a subset of the deep keys, the deep keys
\* include the keys of every fitted sub-component, and the subset is strict
\* when one of those is not a shallow key.
C10_ShallowSubset ==
    \A i \in Oids :
        (IsFitted(heap[i]) /\ FittedComponents(i) # {}) =>
            /\ ShallowKeys(i) \subseteq DeepKeys(i)
            /\ ComponentKeys(i) \subseteq DeepKeys(i)
            /\ (ComponentKeys(i) \ ShallowKeys(i) # {}) => ShallowKeys(i) # DeepKeys(i)

\* get_fitted_params has run on a fitted composite whose fitted sub-component,
\* held in an attribute starting with "_", has a fitted parameter.
C10_Witness ==
    /\ last.op = "get_fitted_params" /\ last.ret = "dict"
    /\ "_comp" \in FittedComponents(last.obj)
    /\ "_comp__coef" \in DeepKeys(last.obj) \ ShallowKeys(last.obj)

-----------------------------------------------------------------------------
(* Properties of create_test_instances_and_names.                          *)

\* The value get_test_params returned is a dict or a list of dicts.
WellShaped(params) ==
    \/ params.t = "dict"
    \/ params.t = "list" /\ \A k \in 1..Len(params.v) : params.v[k].t = "dict"

\* The dicts that come before the first element that is not a dict are all
\* accepted by the constructor.
DictsBeforeAccepted(cls, params) ==
    params.t = "list" =>
        \A k \in 1..Len(params.v) :
            (\A j \in 1..k : params.v[j].t = "dict") => ~CtorRaises(cls, params.v[k].v)

\* C21, as stated: whenever get_test_params returns something that is not a
\* dict or a list of dicts, create_test_instances_and_names raises
\* RuntimeError with the name of the class in its message.
C21_MalformedRuntimeError ==
    (last.op = "create_test_instances_and_names" /\ ~WellShaped(last.arg)) =>
        (last.ret = "RuntimeError" /\ Contains(last.val.v, last.name))

\* C21, amended: it does so when the constructor accepts every dict that
\* comes before the first element that is not a dict; in every case an
\* exception is raised and nothing is returned.
C21_MalformedRaises ==
    (last.op = "create_test_instances_and_names" /\ ~WellShaped(last.arg)) =>
        /\ last.ret \in {"RuntimeError", "TypeError"}
        /\ last.val.t # "tuple"
        /\ DictsBeforeAccepted(last.name, last.arg) =>
              (last.ret = "RuntimeError" /\ Contains(last.val.v, last.name))
        /\ last.ret = "TypeError" => ~DictsBeforeAccepted(last.name, last.arg)

\* RuntimeError has been raised for a list whose first element is a valid
\* parameter dict and whose second element is an int.
C21_Witness ==
    /\ last.op = "create_test_instances_and_names"
    /\ last.arg = PyListOf(<<PyDict([r |-> PyFloat(10), sort |-> PyBool(TRUE)]), PyInt(1)>>)
    /\ last.ret = "RuntimeError"

\* C22: for a dict or a list of dicts, objs and names have the same length,
\* objs[i] is cls(**params[i]), and names[i] is the class name followed by
\* "-i" when there is more than one instance and the class name otherwise.
C22_ObjsAndNames ==
    (last.op = "create_test_instances_and_names" /\ last.ret = "tuple") =>
        LET cls == last.name
            param_list == IF last.arg.t = "dict" THEN <<last.arg>> ELSE last.arg.v
            objs == last.val.v[1]
            names == last.val.v[2]
        IN  /\ Len(objs) = Len(names)
            /\ Len(objs) = Len(param_list)
            /\ \A i \in 1..Len(objs) : objs[i] = Construct(cls, param_list[i].v)
            /\ \A i \in 1..Len(names) :
                  names[i] = IF Len(objs) > 1 THEN cls \o "-" \o Str(i - 1) ELSE cls

\* C23: after get_fitted_params(deep=True) on a fitted estimator, for every
\* fitted component c and every pair (k, v) of c.get_fitted_params(), the
\* result maps the name of c without its trailing underscores, "__" and k to v.
C23_NestedPairs ==
    (last.op = "get_fitted_params" /\ last.ret = "dict") =>
        LET result == GetFittedParams(heap, heap[last.obj], TRUE)
            c_dict == ComponentsOf(heap, heap[last.obj], "None")
        IN  \A c \in DOMAIN c_dict :
                IsFitted(heap[c_dict[c].v]) =>
                    LET c_f_params == GetFittedParams(heap, heap[c_dict[c].v], TRUE)
                    IN  \A k \in DOMAIN c_f_params :
                            /\ Sh(c) \o "__" \o k \in DOMAIN result
                            /\ result[Sh(c) \o "__" \o k] = c_f_params[k]

\* C29: after get_fitted_params(deep=True), for every component c that is not
\* fitted, no key of the result other than the fitted parameters of the
\* estimator itself starts with the name of c without its trailing
\* underscores followed by "__".
C29_UnfittedNoKeys ==
    (last.op = "get_fitted_params" /\ last.ret = "dict") =>
        LET result == GetFittedParams(heap, heap[last.obj], TRUE)
            own == GetFittedParamsOwn(heap[last.obj])
            c_dict == ComponentsOf(heap, heap[last.obj], "None")
        IN  \A c \in DOMAIN c_dict :
                ~IsFitted(heap[c_dict[c].v]) =>
                    \A key \in DOMAIN result \ DOMAIN own : ~StartsWith(key, Sh(c) \o "__")

-----------------------------------------------------------------------------
(* Properties of the collection utilities.                                 *)

CollectionTypes == {"numpy3D", "numpy2D", "np-list", "df-list", "pd-multiindex", "pd-wide"}

\* A list whose elements are all 2D arrays, or all DataFrames.
ListOfOneKind(X) ==
    \/ \A k \in 1..Len(X.v) : X.v[k].t = "ndarray" /\ X.v[k].ndim = 2
    \/ \A k \in 1..Len(X.v) : X.v[k].t = "DataFrame"

\* C25: get_type(X) returns one of the collection type identifiers or raises
\* ValueError; it raises ValueError for an array that is not 2D or 3D, for a
\* list whose elements are not all 2D arrays or all DataFrames, and for a
\* DataFrame without MultiIndex that has a column that is not float.
C25_GetTypeValueError ==
    last.op = "get_type" =>
        LET X == last.arg
        IN  /\ \/ last.ret = "str" /\ last.val.v \in CollectionTypes
               \/ last.ret = "ValueError"
            /\ (X.t = "ndarray" /\ X.ndim \notin {2, 3}) => last.ret = "ValueError"
            /\ (X.t = "list" /\ ~ListOfOneKind(X)) => last.ret = "ValueError"
            /\ (X.t = "DataFrame" /\ ~X.multi /\ ~IsPdWide(X)) => last.ret = "ValueError"

\* C30: is_collection(X, include_2d=True) returns a boolean, and it returns
\* True exactly when get_type(X) returns a type identifier.
C30_PredicatesAgree ==
    last.op \in {"get_type", "is_collection"} =>
        LET c == IsCollection(last.arg, TRUE)
            g == GetType(last.arg)
        IN  /\ c.ret = "bool"
            /\ c.val = PyBool(TRUE) <=> g.ret = "str"

-----------------------------------------------------------------------------
(* Properties of DiscreteFourierApproximation._transform.                  *)

\* The terms of channel i that are retained.
Retained(X_, i) == {k \in 1..Len(X_[i]) : X_[i][k] # 0}

\* C26: in every channel _transform retains max(floor(r * n_timepoints), 1)
\* terms unchanged and zeroes the others: the first ones with sort=False,
\* terms of largest amplitude with sort=True; the shape is that of the input.
C26_RetainedTerms ==
    last.op = "_transform" =>
        LET o == heap[last.obj]
            dft == last.arg.v
            X_ == last.val.v
            n_timepoints == Len(dft[1])
            floor == (o.dict["r"].v * n_timepoints) \div 10
            keep == IF floor >= 1 THEN floor ELSE 1
        IN  /\ Len(X_) = Len(dft)
            /\ \A i \in 1..Len(dft) :
                  /\ Len(X_[i]) = Len(dft[i])
                  /\ Cardinality(Retained(X_, i)) = keep
                  /\ \A k \in Retained(X_, i) : X_[i][k] = dft[i][k]
                  /\ ~o.dict["sort"].v => Retained(X_, i) = 1..keep
                  /\ o.dict["sort"].v =>
                        \A k \in Retained(X_, i), j \in 1..n_timepoints \ Retained(X_, i) :
                            dft[i][k] >= dft[i][j]

\* With r = 0.5 and sort=True, of the three terms of a channel the second
\* one, of the largest amplitude, is the one retained.
C26_Witness ==
    /\ last.op = "_transform"
    /\ heap[last.obj].dict["sort"].v /\ heap[last.obj].dict["r"] = PyFloat(5)
    /\ last.arg.v = <<(<<1, 2, 1>>), (<<2, 2, 1>>)>>
    /\ last.val.v[1] = <<0, 2, 0>>

-----------------------------------------------------------------------------
(* Properties of EncoderRegressor._fit.                                    *)

\* The path of the checkpoint of the last _fit of the estimator o.
CheckpointPath(o) == FilePath \o o.dict["file_name_"].v \o ".keras"

\* model_ of o is the model loaded from the checkpoint / a deep copy of
\* training_model_: another object, with the same weights.
IsLoaded(o) == "model_" \in DOMAIN o.dict /\ o.dict["model_"] = KerasModel("loaded", "best")
IsCopy(o) ==
    /\ "model_" \in DOMAIN o.dict
    /\ o.dict["model_"].v # o.dict["training_model_"].v
    /\ o.dict["model_"].weights = o.dict["training_model_"].weights

-----------------------------------------------------------------------------
(* Dynamic tags across reset and clone.                                    *)

\* C28: after reset() without keep, get_tags() of the estimator equals
\* get_class_tags(); get_tags() of a clone equals get_class_tags(), and
\* clone leaves the estimator and its dynamic tags as they were.
C28_TagsNotCarried ==
    [][/\ (last'.op = "reset" /\ last'.keep = KeepNone /\ last'.ret = "self") =>
            GetTags(ctags', heap'[last'.obj]) = GetClassTags(ctags', heap'[last'.obj].cls)
       /\ last'.op = "clone" =>
            /\ GetTags(ctags', heap'[last'.dst]) = GetClassTags(ctags', heap'[last'.dst].cls)
            /\ heap'[last'.obj] = heap[last'.obj]
            /\ GetTags(ctags', heap'[last'.obj]) = GetTags(ctags, heap[last'.obj])]_vars

\* An estimator with two dynamic tags, one of them against the class value,
\* has been cloned: the clone has the tags of the class, the estimator its own.
C28_Witness ==
    /\ last.op = "clone"
    /\ DOMAIN heap[last.obj].dict["_tags_dynamic"].v = TagArgNames
    /\ GetTags(ctags, heap[last.obj])["capability:missing_values"] = PyBool(TRUE)
    /\ GetTags(ctags, heap[last.dst]) = GetClassTags(ctags, DFA)
    /\ GetTags(ctags, heap[last.obj]) # GetClassTags(ctags, DFA)

====
